---- MODULE Spec2Model ----
(***************************************************************************)
(* State-machine model of Mixin Safe (keeper store, keeper state machine,  *)
(* observer signature combination, MPC signer node).                       *)
(*                                                                         *)
(* The module holds several specifications over one set of variables.     *)
(* Each specification drives one component and leaves the variables of     *)
(* the other components at their initial value:                            *)
(*   SpecStore    keeper/store request, safe_proposals and safes tables    *)
(*   SpecSigner   signer node ProcessOutput, run by run, and Boot's loops  *)
(*   SpecObserver observer signature verification of approved transactions *)
(*   SpecKeeper   keeper action handlers                                   *)
(*   SpecNetwork  keeper network info and operation params                 *)
(*   SpecKeygen   keeper keygen requests and the signer sessions they open *)
(*   SpecKeys     keeper keys table: enrolment and binding of spare keys   *)
(*   SpecSpend    observer spend loops, accountant fee inputs, broadcast    *)
(*   SpecOperation the Operation envelope: Encode and DecodeOperation      *)
(*   SpecQueue    signer node queueOperation under its two loops           *)
(*   SpecReceive  signer node acceptIncomingMessages and handlerLoop        *)
(*   SpecPending  signer node loopPendingSessions and its result sends      *)
(*   SpecSnapshots observer snapshotsLoop and its checkpoint                *)
(*   SpecSpendLoop observer bitcoinTransactionSpendLoop over its list       *)
(*   SpecWorkers  ProcessOutput of the keeper worker and of the signer      *)
(*   SpecVerify   verifySessionSignerResults over every map of rows         *)
(***************************************************************************)
EXTENDS Integers, FiniteSets, Sequences, TLC

VARIABLES
  requests,        \* keeper store: requests table, request_id -> row
  safe_proposals,  \* keeper store: safe_proposals table, request_id -> row
  safes,           \* keeper store: safes table, holder -> row
  lastOp,          \* the last store call and what it returned
  sessions,        \* signer store: sessions table, session_id -> row
  session_signers, \* signer store: session_signers table
  keys,            \* signer store: keys table
  cur,             \* signer: the MTG output at the head of the queue
  hist,            \* signer: what each delivery of cur to ProcessOutput returned
  obsTx,           \* observer: the transaction approval and the keeper's response
  obsResult,       \* observer: how the last signature check of obsTx ended
  utxos,           \* keeper store: the outputs deposited to the safe
  transactions,    \* keeper store: transactions with their signature requests
  height,          \* keeper store: height of the latest NetworkInfo
  bond,            \* bond asset minted to the holder, held and burned by the keeper
  lastRequest,     \* keeper: the request at the head of the queue and its result
  network_infos,   \* keeper store: the latest NetworkInfo of each chain
  operation_params,\* keeper store: the request that set each chain's params or plan
  keeperBuild,     \* which writeNetworkInfo the keeper was built with
  signer_ops,      \* keeper: the operations sent to the signer group, in order
  signer_read,     \* signer: how many of signer_ops it has processed
  keeper_keys,     \* keeper store: keys table, public key -> row
  bitcoin_outputs, \* observer store: the accountant's bitcoin_outputs table
  approvals,       \* observer store: transaction approvals, hash -> row
  spend,           \* observer: where each spend loop stands, and its locals
  chain_txs,       \* the transactions the chain's node has accepted
  lastBroadcast,   \* observer: the broadcast of the accountant flow and its outcome
  wire,            \* common: an Operation, its encoding and what decodes from it
  node_operations, \* signer node: the operations map of queueOperation
  node_mutex,      \* signer node: the goroutine that holds node.mutex
  started,         \* signer node: startOperation calls per session id
  queue_pc,        \* signer node: where each goroutine of Boot stands
  replay,          \* signer node: the ProcessOutput call in progress and its first run
  recv,            \* signer node: where acceptIncomingMessages stands, and its message
  chans,           \* signer node: messages buffered in each session's channel
  handlers,        \* signer node: where each started operation is around handlerLoop
  pending,         \* signer node: where loopPendingSessions stands, and its list
  sent_results,    \* the result transactions the signer node has sent, by session
  snap,            \* observer: where snapshotsLoop stands, and its locals
  checkpoint,      \* observer store: the snapshots-checkpoint property
  handled,         \* observer: the snapshots handleSnapshot has handled
  ledger           \* the snapshots of the observer's account, oldest first

storeVars == <<requests, safe_proposals, safes, lastOp>>
signerVars == <<sessions, session_signers, keys, cur, hist>>
obsVars == <<obsTx, obsResult>>
keeperVars == <<utxos, transactions, height, bond, lastRequest>>
networkVars == <<network_infos, operation_params, keeperBuild>>
keysVars == <<signer_ops, signer_read, keeper_keys>>

spendVars == <<bitcoin_outputs, approvals, spend, chain_txs, lastBroadcast>>
wireVars == <<wire>>
queueVars == <<node_operations, node_mutex, started, queue_pc>>
replayVars == <<replay>>
receiveVars == <<recv, chans, handlers>>
pendingVars == <<pending, sent_results>>
snapshotVars == <<snap, checkpoint, handled, ledger>>
lateVars == <<replayVars, receiveVars, pendingVars, snapshotVars>>

vars == <<storeVars, signerVars, obsVars, keeperVars, networkVars, keysVars,
          spendVars, wireVars, queueVars, lateVars>>

\* What a step of one component leaves alone.
notStore == <<signerVars, obsVars, spendVars, wireVars, queueVars, lateVars, keeperVars, networkVars, keysVars>>
notSigner == <<storeVars, obsVars, spendVars, wireVars, queueVars, lateVars, keeperVars, networkVars, keysVars>>
notObserver == <<storeVars, signerVars, keeperVars, networkVars, keysVars, spendVars, wireVars, queueVars, lateVars>>
notKeeper == <<requests, lastOp, signerVars, obsVars, spendVars, wireVars, queueVars, lateVars, networkVars, keysVars>>
notSpend == <<storeVars, signerVars, obsVars, keeperVars, networkVars, keysVars,
             wireVars, queueVars, lateVars>>
notWire == <<storeVars, signerVars, obsVars, keeperVars, networkVars, keysVars,
            spendVars, queueVars, lateVars>>
notQueue == <<storeVars, session_signers, keys, cur, hist, obsVars, keeperVars,
             networkVars, keysVars, spendVars, wireVars, lateVars>>
notNetwork == <<storeVars, signerVars, obsVars, spendVars, wireVars, queueVars, lateVars, utxos, transactions, height, bond, keysVars>>

----------------------------------------------------------------------------
(* Bounds of the model *)

MaxRequests == 2
MaxTime == 2
MaxDeliveries == 2
MaxInputs == 1
SignerThreshold == 1
MaxHeight == 1
MaxTimelock == 1
MaxKeygenOps == 3

----------------------------------------------------------------------------
(* common request constants *)

RequestRoleHolder == 1
RequestRoleSigner == 2
RequestRoleObserver == 3

RequestStateInitial == 1
RequestStatePending == 2
RequestStateDone == 3
RequestStateFailed == 4

bitcoinMinimumFeeRate == 1
bitcoinMaximumFeeRate == 1000

NoRow == [state |-> 0]

RequestIds == 1..MaxRequests
Holders == {"h1", "h2"}
StoreHolders == {"h1"}

----------------------------------------------------------------------------
(* keeper/store/request.go *)

\* checkExistence: SELECT request_id FROM requests WHERE request_id=?
checkExistence(table, key) == table[key] # NoRow

WriteRequestOverwrite(rs, req) ==
  IF req.state = 0 \/ req.role = 0
  THEN [requests |-> rs, ret |-> "panic"]
  ELSE [requests |-> [rs EXCEPT ![req.id] =
                        [state |-> req.state, role |-> req.role,
                         created_at |-> req.created_at]],
        ret |-> "nil"]

\* WriteRequestIfNotExist: panic on an unset State or Role; nothing is
\* written when the request_id exists; otherwise the row is inserted.
WriteRequestIfNotExist(rs, req) ==
  IF req.state = 0 \/ req.role = 0
  THEN [requests |-> rs, ret |-> "panic"]
  ELSE IF checkExistence(rs, req.id)
  THEN [requests |-> rs, ret |-> "nil"]
  ELSE [requests |-> [rs EXCEPT ![req.id] =
                        [state |-> req.state, role |-> req.role,
                         created_at |-> req.created_at]],
        ret |-> "nil"]

\* FinishRequest: UPDATE requests SET state=Done WHERE request_id=? AND
\* state=Initial, through execOne: an error and a rollback unless exactly
\* one row was updated.
FinishRequest(rs, id) ==
  IF rs[id] # NoRow /\ rs[id].state = RequestStateInitial
  THEN [requests |-> [rs EXCEPT ![id].state = RequestStateDone], ret |-> "nil"]
  ELSE [requests |-> rs, ret |-> "error"]

ReadPendingRequestAnyState(rs) ==
  LET rows == {i \in DOMAIN rs : rs[i] # NoRow}
  IN {i \in rows : \A j \in rows : rs[i].created_at <= rs[j].created_at}

\* ReadPendingRequest: SELECT ... WHERE state=Initial ORDER BY created_at ASC,
\* first row.  The set holds the rows the query may return first (rows of
\* equal created_at have no defined order); empty when it returns nil.
ReadPendingRequest(rs) ==
  LET rows == {i \in DOMAIN rs : rs[i] # NoRow /\ rs[i].state = RequestStateInitial}
  IN {i \in rows : \A j \in rows : rs[i].created_at <= rs[j].created_at}

----------------------------------------------------------------------------
(* keeper/store/safe.go *)

\* WriteSafeProposalWithRequest: INSERT safe_proposals, then UPDATE requests
\* SET state=Done WHERE request_id=?, each through execOne, in one database
\* transaction that is rolled back on the first error.
WriteSafeProposalWithRequest(rs, sps, sp) ==
  IF checkExistence(sps, sp.request_id)
  THEN [requests |-> rs, safe_proposals |-> sps, ret |-> "error"]
  ELSE IF rs[sp.request_id] = NoRow
  THEN [requests |-> rs, safe_proposals |-> sps, ret |-> "error"]
  ELSE [requests |-> [rs EXCEPT ![sp.request_id].state = RequestStateDone],
        safe_proposals |-> [sps EXCEPT ![sp.request_id] = sp],
        ret |-> "nil"]

\* WriteSafeWithRequest: INSERT safes, then UPDATE requests SET state=Done
\* WHERE request_id=?, in one database transaction.
WriteSafeWithRequest(rs, ss, safe) ==
  IF checkExistence(ss, safe.holder)
  THEN [requests |-> rs, safes |-> ss, ret |-> "error"]
  ELSE IF rs[safe.request_id] = NoRow
  THEN [requests |-> rs, safes |-> ss, ret |-> "error"]
  ELSE [requests |-> [rs EXCEPT ![safe.request_id].state = RequestStateDone],
        safes |-> [ss EXCEPT ![safe.holder] = safe],
        ret |-> "nil"]

----------------------------------------------------------------------------
(* signer/node.go: configuration and values *)

Members == <<"m1", "m2", "m3">>
MemberSet == {Members[i] : i \in DOMAIN Members}
NodeId == "m1"
SessionIds == {"s1"}
Curves == {"secp256k1-ecdsa-bitcoin", "edwards25519-default"}
KeeperAssetId == "keeper-asset"
SignerAssetId == "signer-asset"
PrepareExtra == "PREPARE"
KeeperResponseAmount == 1

OperationTypeKeygenInput == "KeygenInput"
OperationTypeKeygenOutput == "KeygenOutput"
OperationTypeSignInput == "SignInput"
OperationTypeSignOutput == "SignOutput"

Absent == "absent"
Panic == [txs |-> <<>>, asset |-> "", fault |-> "panic"]
ReplayPanic == [txs |-> <<>>, asset |-> "", fault |-> "replay check"]
NoTransactions == [txs |-> <<>>, asset |-> "", fault |-> ""]
Undecodable == [type |-> "undecodable"]
NoOutput == [deposit |-> FALSE, asset |-> "", amount |-> 0, senders |-> <<>>,
             op |-> [type |-> "none"]]

\* The key this node holds from an earlier keygen, and the key its own run
\* of the keygen protocol produces.
StoredKey == [public |-> "K0", curve |-> "secp256k1-ecdsa-bitcoin"]
KeygenPublic == "K1"
Message == <<"msg">>
ValidSignature == "sigGood"

Fingerprint(public) == <<"fingerprint", public>>

\* concatMessageAndSignature: length-prefixed message followed by the signature.
concatMessageAndSignature(msg, sig) == msg \o <<sig>>

\* verifySessionSignature: splits extra into message and signature and
\* verifies the signature against the derived key; an extra that holds the
\* message alone is too short and is invalid.
verifySessionSignature(extra) ==
  IF Len(extra) < Len(Message) + 1
  THEN [valid |-> FALSE, sig |-> ""]
  ELSE [valid |-> extra[Len(extra)] = ValidSignature, sig |-> extra[Len(extra)]]

\* verifySessionHolder: the public key parses on the session's curve.
verifySessionHolder(public) == public \in {StoredKey.public, KeygenPublic}

----------------------------------------------------------------------------
(* signer store (sessions, session_signers, keys) *)

ReadSession(ss, id) == ss[id]

WriteSessionIfNotExist(ss, op, needsCommittment) ==
  IF ss[op.id] # NoRow THEN ss
  ELSE [ss EXCEPT ![op.id] =
          [state |-> RequestStateInitial, id |-> op.id,
           operation |-> op.type, curve |-> op.curve,
           public |-> op.public, extra |-> op.extra, prepared |-> ~needsCommittment]]

PrepareSessionSignerIfNotExist(sg, id, signer) ==
  IF sg[id][signer] # Absent THEN sg ELSE [sg EXCEPT ![id][signer] = ""]

WriteSessionSignerIfNotExist(sg, id, signer, extra) ==
  IF sg[id][signer] # Absent
  THEN [session_signers |-> sg, err |-> FALSE]
  ELSE [session_signers |-> [sg EXCEPT ![id][signer] = extra], err |-> FALSE]

\* UpdateSessionSigner fills the extra of the row the signer's PREPARE
\* created; a row that already holds a result is left alone.
UpdateSessionSigner(sg, id, signer, extra) ==
  IF sg[id][signer] = Absent
  THEN [session_signers |-> sg, err |-> TRUE]
  ELSE IF sg[id][signer] # ""
  THEN [session_signers |-> sg, err |-> FALSE]
  ELSE [session_signers |-> [sg EXCEPT ![id][signer] = extra], err |-> FALSE]

\* ListSessionSignerResults: signer_id -> extra of the session's rows.
ListSessionSignerResults(sg, id) ==
  [m \in {x \in MemberSet : sg[id][x] # Absent} |-> sg[id][m]]

MarkSessionPrepared(ss, id) ==
  IF ss[id] # NoRow /\ ss[id].state = RequestStateInitial /\ ~ss[id].prepared
  THEN [sessions |-> [ss EXCEPT ![id].prepared = TRUE], err |-> FALSE]
  ELSE [sessions |-> ss, err |-> TRUE]

MarkSessionPending(ss, id, curve, public, extra) ==
  IF /\ ss[id] # NoRow
     /\ ss[id].curve = curve
     /\ ss[id].public = public
     /\ ss[id].state = RequestStateInitial
     /\ ss[id].prepared
  THEN [sessions |-> [ss EXCEPT ![id].state = RequestStatePending, ![id].extra = extra],
        err |-> FALSE]
  ELSE [sessions |-> ss, err |-> TRUE]

MarkSessionDone(ss, id) ==
  IF ss[id] # NoRow /\ ss[id].state = RequestStatePending
  THEN [ss EXCEPT ![id].state = RequestStateDone] ELSE ss

FailSession(ss, id) ==
  IF ss[id] # NoRow /\ ss[id].state = RequestStateInitial
  THEN [ss EXCEPT ![id].state = RequestStateFailed] ELSE ss

ReadKeyByFingerprint(ks, fingerprint) ==
  IF \E k \in ks : Fingerprint(k.public) = fingerprint
  THEN CHOOSE k \in ks : Fingerprint(k.public) = fingerprint
  ELSE [public |-> "", curve |-> "none"]

----------------------------------------------------------------------------
(* signer/node.go: ProcessOutput *)

\* A signer state is [sessions, session_signers, keys]; a handler returns the
\* state it leaves and res, the (transactions, asset) pair it returns or
\* Panic.  The writes committed before a panic stay in the store.

\* A keygen counted as finished once more than the threshold of members
\* agree, as a sign is.
verifySessionSignerResultsByThreshold(session, signers) ==
  LET found == {i \in DOMAIN Members : Members[i] \in DOMAIN signers}
      first == IF found = {} THEN 0
               ELSE CHOOSE i \in found : \A j \in found : i <= j
      sig == IF first = 0 THEN "" ELSE signers[Members[first]]
      signed == {i \in found : signers[Members[i]] # "" /\ signers[Members[i]] = sig}
  IN [finished |-> Cardinality(signed) > SignerThreshold, sig |-> sig]

\* The sign branch counting a signature reported by threshold members as enough.
verifySignResultsAtThreshold(members, signers) ==
  LET found == {i \in DOMAIN members : members[i] \in DOMAIN signers}
      first == IF found = {} THEN 0 ELSE CHOOSE i \in found : \A j \in found : i <= j
      sig == IF first = 0 THEN "" ELSE signers[members[first]]
      signed == {i \in found : signers[members[i]] # "" /\ signers[members[i]] = sig}
  IN [finished |-> Cardinality(signed) >= SignerThreshold, sig |-> sig]

\* The sign branch of verifySessionSignerResults over the members in the
\* order Genesis.Members lists them: sig is the extra of the first member
\* that has a row, and a member counts when its extra is non-empty and equal
\* to it.
verifySignResults(members, signers) ==
  LET found == {i \in DOMAIN members : members[i] \in DOMAIN signers}
      first == IF found = {} THEN 0 ELSE CHOOSE i \in found : \A j \in found : i <= j
      sig == IF first = 0 THEN "" ELSE signers[members[first]]
      signed == {i \in found : signers[members[i]] # "" /\ signers[members[i]] = sig}
  IN [finished |-> Cardinality(signed) > SignerThreshold, sig |-> sig]

\* verifySessionSignerResults.
verifySessionSignerResults(session, signers) ==
  IF session.operation = OperationTypeKeygenInput
  THEN LET signed == {i \in DOMAIN Members :
                        /\ Members[i] \in DOMAIN signers
                        /\ signers[Members[i]] = session.public
                        /\ NodeId \in DOMAIN signers
                        /\ signers[Members[i]] = signers[NodeId]}
       IN [finished |-> Cardinality(signed) >= Len(Members), sig |-> ""]
  ELSE verifySignResults(Members, signers)

buildKeeperTransactionUnchecked(op, balance) ==
  [txs |-> <<[trace |-> op.id, type |-> op.type, curve |-> op.curve,
              public |-> op.public, extra |-> op.extra]>>,
   asset |-> "", fault |-> ""]

\* buildKeeperTransaction: the response of amount 1 in the keeper asset, or
\* the keeper asset id when the balance at the output's sequence is short.
buildKeeperTransaction(op, balance) ==
  IF balance < KeeperResponseAmount
  THEN [txs |-> <<>>, asset |-> KeeperAssetId, fault |-> ""]
  ELSE [txs |-> <<[trace |-> op.id, type |-> op.type, curve |-> op.curve,
                   public |-> op.public, extra |-> op.extra]>>,
        asset |-> "", fault |-> ""]

\* processSignerPrepare marking the session with one PREPARE fewer.
processSignerPrepareAtThreshold(st, op, out) ==
  IF op.type # OperationTypeSignInput THEN [st |-> st, err |-> TRUE]
  ELSE LET s == ReadSession(st.sessions, op.id)
       IN IF s = NoRow THEN [st |-> st, err |-> TRUE]
          ELSE IF s.prepared THEN [st |-> st, err |-> FALSE]
          ELSE LET sg == PrepareSessionSignerIfNotExist(st.session_signers, op.id, out.senders[1])
                   st1 == [st EXCEPT !.session_signers = sg]
                   signers == ListSessionSignerResults(sg, op.id)
               IN IF Cardinality(DOMAIN signers) < SignerThreshold
                  THEN [st |-> st1, err |-> FALSE]
                  ELSE LET m == MarkSessionPrepared(st1.sessions, op.id)
                       IN [st |-> [st1 EXCEPT !.sessions = m.sessions], err |-> m.err]

\* processSignerPrepare; err is what processAction panics on.
processSignerPrepare(st, op, out) ==
  IF op.type # OperationTypeSignInput THEN [st |-> st, err |-> TRUE]
  ELSE LET s == ReadSession(st.sessions, op.id)
       IN IF s = NoRow THEN [st |-> st, err |-> TRUE]
          ELSE IF s.prepared THEN [st |-> st, err |-> FALSE]
          ELSE LET sg == PrepareSessionSignerIfNotExist(st.session_signers, op.id, out.senders[1])
                   st1 == [st EXCEPT !.session_signers = sg]
                   signers == ListSessionSignerResults(sg, op.id)
               IN IF Cardinality(DOMAIN signers) <= SignerThreshold
                  THEN [st |-> st1, err |-> FALSE]
                  ELSE LET m == MarkSessionPrepared(st1.sessions, op.id)
                       IN [st |-> [st1 EXCEPT !.sessions = m.sessions], err |-> m.err]

ReloadSessionStale(ss, id, session) == session

\* The session read again after MarkSessionPending.
ReloadSession(ss, id, session) == ReadSession(ss, id)

\* A finger path is the hex of eight bytes of fingerprint and four of path.
WellFormedFingerPath(public) == public[1] = "fingerprint"

\* node.readKeyByFingerPath: an error for a public that is no finger path,
\* else the row of ReadKeyByFingerprint.
readKeyByFingerPath(ks, public) ==
  IF ~WellFormedFingerPath(public)
  THEN [public |-> "", curve |-> "none", err |-> TRUE]
  ELSE LET k == ReadKeyByFingerprint(ks, public)
       IN [public |-> k.public, curve |-> k.curve, err |-> FALSE]

\* The keygen branch of processSignerResult once the results are finished.
processKeygenResult(st, session, signers, balance) ==
  IF (IF NodeId \in DOMAIN signers THEN signers[NodeId] ELSE "") # session.public
  THEN [st |-> st, res |-> Panic]
  ELSE IF ~verifySessionHolder(session.public) THEN [st |-> st, res |-> NoTransactions]
  ELSE LET key == ReadKeyByFingerprint(st.keys, Fingerprint(session.public))
       IN IF key.public # session.public \/ key.curve # session.curve
          THEN [st |-> st, res |-> Panic]
          ELSE [st |-> st,
                res |-> buildKeeperTransaction(
                          [id |-> session.id, type |-> OperationTypeKeygenOutput,
                           curve |-> session.curve, public |-> session.public,
                           extra |-> <<"role-signer", "chaincode">>], balance)]

\* The sign branch answering nothing once the session is Done.
processSignResultUnlessDone(st, session0, sig, balance) ==
  LET mark == session0.state = RequestStateInitial /\ session0.prepared
      m == MarkSessionPending(st.sessions, session0.id, session0.curve, session0.public,
                              concatMessageAndSignature(session0.extra, sig))
      st1 == IF mark THEN [st EXCEPT !.sessions = m.sessions] ELSE st
      session == IF mark THEN ReadSession(st1.sessions, session0.id) ELSE session0
      key == readKeyByFingerPath(st1.keys, session.public)
      v == verifySessionSignature(session.extra)
  IN IF mark /\ m.err THEN [st |-> st, res |-> Panic]
     ELSE IF key.err THEN [st |-> st1, res |-> Panic]
     ELSE IF session0.state = RequestStateDone THEN [st |-> st1, res |-> NoTransactions]
     ELSE IF key.curve # session.curve THEN [st |-> st1, res |-> NoTransactions]
     ELSE IF ~v.valid THEN [st |-> st1, res |-> NoTransactions]
     ELSE [st |-> st1,
           res |-> buildKeeperTransaction(
                     [id |-> session.id, type |-> OperationTypeSignOutput,
                      curve |-> session.curve, public |-> key.public,
                      extra |-> <<v.sig>>], balance)]

\* The sign branch of processSignerResult once the results are finished,
\* from the test of the session it read on: session0 is that session, st the
\* store when MarkSessionPending runs.
processSignResult(st, session0, sig, balance) ==
  LET mark == session0.state = RequestStateInitial /\ session0.prepared
      m == MarkSessionPending(st.sessions, session0.id, session0.curve, session0.public,
                              concatMessageAndSignature(session0.extra, sig))
      st1 == IF mark THEN [st EXCEPT !.sessions = m.sessions] ELSE st
      session == IF mark THEN ReloadSession(st1.sessions, session0.id, session0) ELSE session0
      key == readKeyByFingerPath(st1.keys, session.public)
      v == verifySessionSignature(session.extra)
  IN IF mark /\ m.err THEN [st |-> st, res |-> Panic]
     ELSE IF key.err THEN [st |-> st1, res |-> Panic]
     ELSE IF key.curve # session.curve THEN [st |-> st1, res |-> NoTransactions]
     ELSE IF ~v.valid THEN [st |-> st1, res |-> NoTransactions]
     ELSE [st |-> st1,
           res |-> buildKeeperTransaction(
                     [id |-> session.id, type |-> OperationTypeSignOutput,
                      curve |-> session.curve, public |-> key.public,
                      extra |-> <<v.sig>>], balance)]

\* A run of processAction is a series of store transactions, and the
\* goroutines of Boot write the sessions table meanwhile.  Every read of a
\* run but one is of rows no goroutine writes, or is used in a way a later
\* write of a goroutine does not change; the one is the session
\* processSignerResult reads first and, finding it Initial and prepared,
\* marks Pending later.  A run therefore returns, or stops before that
\* MarkSessionPending with the session it read and the signature agreed on.
NoRun == [txs |-> <<>>, asset |-> "", fault |-> "not run"]

Returns(r) == [st |-> r.st, res |-> r.res, mark |-> FALSE, session |-> NoRow, sig |-> ""]

\* processSignerResult, up to its return or to the MarkSessionPending of the
\* sign branch.
processSignerResult(st, op, out, balance) ==
  LET row == ReadSession(st.sessions, op.id)
  IN IF row = NoRow THEN Returns([st |-> st, res |-> Panic])
     ELSE IF op.curve # row.curve \/ op.type # row.operation
     THEN Returns([st |-> st, res |-> Panic])
     ELSE
       LET session == row
           w == IF session.operation = OperationTypeKeygenInput
                THEN WriteSessionSignerIfNotExist(st.session_signers, op.id, out.senders[1], op.extra)
                ELSE UpdateSessionSigner(st.session_signers, op.id, out.senders[1], op.extra)
           st1 == [st EXCEPT !.session_signers = w.session_signers]
           signers == ListSessionSignerResults(st1.session_signers, op.id)
           v == verifySessionSignerResults(session, signers)
       IN IF w.err THEN Returns([st |-> st, res |-> Panic])
          ELSE IF ~v.finished THEN Returns([st |-> st1, res |-> NoTransactions])
          ELSE IF Cardinality(DOMAIN signers) <= SignerThreshold
          THEN Returns([st |-> st1, res |-> Panic])
          ELSE IF session.operation = OperationTypeKeygenInput
          THEN Returns(processKeygenResult(st1, session, signers, balance))
          ELSE IF session.state = RequestStateInitial /\ session.prepared
          THEN [st |-> st1, res |-> NoRun, mark |-> TRUE, session |-> session, sig |-> v.sig]
          ELSE Returns(processSignResult(st1, session, v.sig, balance))

\* A sender check that looks at the first sender only.
FirstSenderIsMember(out) == Len(out.senders) >= 1 /\ out.senders[1] \in MemberSet

\* len(out.Senders) == 1 and node.findMember(out.Senders[0]) >= 0.
SingleMemberSender(out) == Len(out.senders) = 1 /\ out.senders[1] \in MemberSet

\* processAction, up to its return or to the MarkSessionPending of
\* processSignerResult.
processAction(st, out, balance) ==
  IF out.deposit THEN Returns([st |-> st, res |-> NoTransactions])
  ELSE IF out.asset = KeeperAssetId
  THEN IF out.amount < 1 THEN Returns([st |-> st, res |-> Panic])
       ELSE IF out.op.type = Undecodable.type THEN Returns([st |-> st, res |-> NoTransactions])
       ELSE Returns([st |-> [st EXCEPT !.sessions =
                               WriteSessionIfNotExist(st.sessions, out.op,
                                                      out.op.type = OperationTypeSignInput)],
                     res |-> NoTransactions])
  ELSE IF out.asset = SignerAssetId
  THEN IF ~SingleMemberSender(out)
       THEN Returns([st |-> st, res |-> NoTransactions])
       ELSE IF out.op.type = Undecodable.type THEN Returns([st |-> st, res |-> NoTransactions])
       ELSE IF out.op.extra = PrepareExtra
       THEN LET r == processSignerPrepare(st, out.op, out)
            IN Returns([st |-> r.st, res |-> IF r.err THEN Panic ELSE NoTransactions])
       ELSE processSignerResult(st, out.op, out, balance)
  ELSE Returns([st |-> st, res |-> NoTransactions])

----------------------------------------------------------------------------
(* The signer node: MTG deliveries and the node's own session goroutines *)

\* A finger path no key of the node matches, and a public that is no finger
\* path.
UnknownFingerPath == <<"fingerprint", "KZ">>
MalformedFingerPath == <<"malformed", "">>

KeeperOps ==
  {[id |-> id, type |-> OperationTypeKeygenInput, curve |-> c, public |-> "", extra |-> <<>>] :
     id \in SessionIds, c \in Curves}
  \cup
  {[id |-> id, type |-> OperationTypeSignInput, curve |-> c,
    public |-> Fingerprint(StoredKey.public), extra |-> Message] :
     id \in SessionIds, c \in Curves}
  \cup
  {[id |-> id, type |-> OperationTypeSignInput, curve |-> StoredKey.curve,
    public |-> p, extra |-> Message] :
     id \in SessionIds, p \in {UnknownFingerPath, MalformedFingerPath}}

SignerOps ==
  {[id |-> id, type |-> OperationTypeKeygenInput, curve |-> c, public |-> "", extra |-> e] :
     id \in SessionIds, c \in Curves, e \in {KeygenPublic, "KX"}}
  \cup
  {[id |-> id, type |-> OperationTypeSignInput, curve |-> c, public |-> "", extra |-> e] :
     id \in SessionIds, c \in Curves, e \in {PrepareExtra, ValidSignature, "sigBad"}}

Outputs ==
  {[deposit |-> TRUE, asset |-> KeeperAssetId, amount |-> 1, senders |-> <<>>, op |-> Undecodable]}
  \cup
  {[deposit |-> FALSE, asset |-> KeeperAssetId, amount |-> 1, senders |-> <<>>, op |-> op] :
     op \in KeeperOps \cup {Undecodable}}
  \cup
  {[deposit |-> FALSE, asset |-> KeeperAssetId, amount |-> 0, senders |-> <<>>, op |-> Undecodable]}
  \cup
  {[deposit |-> FALSE, asset |-> SignerAssetId, amount |-> 1, senders |-> <<m>>, op |-> op] :
     m \in MemberSet, op \in SignerOps \cup {Undecodable}}
  \cup
  {[deposit |-> FALSE, asset |-> SignerAssetId, amount |-> 1, senders |-> sd, op |-> op] :
     sd \in {<<"outsider">>, <<"m2", "m3">>}, op \in {o \in SignerOps : o.extra = ValidSignature}}

signerState == [sessions |-> sessions, session_signers |-> session_signers, keys |-> keys]

SignerEmpty ==
  /\ sessions = [id \in SessionIds |-> NoRow]
  /\ session_signers = [id \in SessionIds |-> [m \in MemberSet |-> Absent]]
  /\ keys = {StoredKey}
  /\ cur = NoOutput
  /\ hist = <<>>

\* sendSignerResultTransaction: the result this node sends for a session it
\* lists as Pending (the public of a keygen, the signature of a sign).  An
\* output that carries a result in this node's name exists only once the
\* node has sent it.
OwnResultSent(out) ==
  LET s == sessions[out.op.id]
  IN /\ s # NoRow
     /\ s.state \in {RequestStatePending, RequestStateDone}
     /\ out.op.type = s.operation
     /\ out.op.curve = s.curve
     /\ out.op.extra = IF s.operation = OperationTypeKeygenInput THEN s.public
                       ELSE s.extra[Len(s.extra)]

Deliverable(out) ==
  IF out.asset # SignerAssetId \/ out.senders # <<NodeId>> THEN TRUE
  ELSE IF out.op.type = Undecodable.type THEN TRUE
  ELSE IF out.op.extra = PrepareExtra THEN TRUE
  ELSE OwnResultSent(out)

\* What a step of the signer node leaves alone.
notSignerNode == <<storeVars, obsVars, keeperVars, networkVars, keysVars, spendVars, wireVars,
                   node_mutex, queue_pc, receiveVars, pendingVars, snapshotVars>>

\* The call of ProcessOutput in progress: the run it is in, the result of
\* the first run, and what a run that stopped before MarkSessionPending
\* carries on with.
ReplayIdleRow ==
  [pc |-> "idle", run |-> 0, balance |-> 0, first |-> NoRun, second |-> NoRun,
   session |-> NoRow, sig |-> "", seen |-> [id \in SessionIds |-> NoRow],
   interleaved |-> FALSE]

\* The goroutine queueOperation starts for a session: how often the running
\* process called startOperation for it, whether the call is still running,
\* and whether it returned an error.
NotStarted == [calls |-> 0, running |-> FALSE, err |-> FALSE]

\* A panic is recovered nowhere and ends the process with all its
\* goroutines: loopInitialSessions panics on the error of a startOperation,
\* ProcessOutput panics in processAction and in mtg.ReplayCheck.
NodeUp ==
  /\ \A id \in DOMAIN started : ~started[id].err
  /\ replay.pc # "panic"

\* A run of processAction returns res and leaves the store st.  After the
\* second run mtg.ReplayCheck compares the two results and panics unless
\* they are the same.
RunReturns(run, balance, first, interleaved, deliveries, st, res) ==
  /\ sessions' = st.sessions
  /\ session_signers' = st.session_signers
  /\ IF res = Panic
     THEN /\ replay' = [ReplayIdleRow EXCEPT !.pc = "panic"]
          /\ hist' = Append(deliveries, Panic)
     ELSE IF run = 1
     THEN /\ replay' = [ReplayIdleRow EXCEPT !.pc = "second", !.balance = balance,
                                             !.first = res, !.seen = st.sessions]
          /\ hist' = deliveries
     ELSE /\ replay' = [ReplayIdleRow EXCEPT !.pc = IF first = res THEN "checked" ELSE "panic",
                                             !.first = first, !.second = res,
                                             !.interleaved = interleaved]
          /\ hist' = Append(deliveries, IF first = res THEN res ELSE ReplayPanic)

\* A run of processAction on the output out, from its first line.
RunBegins(run, out, balance, first, interleaved, deliveries) ==
  LET r == processAction(signerState, out, balance)
  IN IF r.mark
     THEN /\ sessions' = r.st.sessions
          /\ session_signers' = r.st.session_signers
          /\ replay' = [ReplayIdleRow EXCEPT !.pc = "mark", !.run = run, !.balance = balance,
                                             !.first = first, !.interleaved = interleaved,
                                             !.session = r.session, !.sig = r.sig]
          /\ hist' = deliveries
     ELSE RunReturns(run, balance, first, interleaved, deliveries, r.st, r.res)

\* MTG hands the next output to ProcessOutput once the one before it has
\* been processed, and the first processAction runs; balance is the
\* keeper-asset balance the group reports for the output's sequence.
DeliverOutput ==
  /\ NodeUp
  /\ replay.pc \in {"idle", "checked"}
  /\ \E out \in Outputs, balance \in 0..1 :
       /\ Deliverable(out)
       /\ cur' = out
       /\ RunBegins(1, out, balance, NoRun, FALSE, <<>>)
  /\ UNCHANGED <<keys, node_operations, started, notSignerNode>>

\* MTG hands the output at the head of its queue to ProcessOutput again: to
\* the process started after a panic, or to retry an asset shortage.
RedeliverOutput ==
  /\ NodeUp
  /\ replay.pc \in {"checked", "boot"}
  /\ cur # NoOutput
  /\ Len(hist) < MaxDeliveries
  /\ \E balance \in 0..1 : RunBegins(1, cur, balance, NoRun, FALSE, hist)
  /\ UNCHANGED <<keys, cur, node_operations, started, notSignerNode>>

\* ProcessOutput, second line: processAction on the same output again, and
\* mtg.ReplayCheck once it returns.
ProcessOutputSecondRun ==
  /\ NodeUp
  /\ replay.pc = "second"
  /\ RunBegins(2, cur, replay.balance, replay.first, sessions # replay.seen, hist)
  /\ UNCHANGED <<keys, cur, node_operations, started, notSignerNode>>

\* processSignerResult from MarkSessionPending on, for the session it read
\* as Initial and prepared.
ProcessOutputMarkPending ==
  /\ NodeUp
  /\ replay.pc = "mark"
  /\ LET r == processSignResult(signerState, replay.session, replay.sig, replay.balance)
     IN RunReturns(replay.run, replay.balance, replay.first, replay.interleaved, hist,
                   r.st, r.res)
  /\ UNCHANGED <<keys, cur, node_operations, started, notSignerNode>>

\* loopInitialSessions lists a session in state Initial, and queueOperation,
\* which has not seen its id, starts the goroutine of startOperation.
LoopInitialSessions ==
  \E id \in SessionIds :
    /\ NodeUp
    /\ sessions[id] # NoRow
    /\ sessions[id].state = RequestStateInitial
    /\ sessions[id].prepared
    /\ id \notin node_operations
    /\ node_operations' = node_operations \cup {id}
    /\ started' = [started EXCEPT ![id] = [calls |-> @.calls + 1, running |-> TRUE,
                                            err |-> FALSE]]
    /\ UNCHANGED <<signerVars, replay, notSignerNode>>

\* startKeygen returns: the protocol or the backup failed (FailSession), or
\* the key is written (WriteKeyIfNotExists: the key row, and the session
\* Pending with its public).
StartKeygen ==
  \E id \in SessionIds, ok \in BOOLEAN :
    /\ NodeUp
    /\ started[id].running
    /\ sessions[id].operation = OperationTypeKeygenInput
    /\ IF ok
       THEN /\ keys' = keys \cup {[public |-> KeygenPublic, curve |-> sessions[id].curve]}
            /\ sessions' = [sessions EXCEPT ![id].state = RequestStatePending,
                                            ![id].public = KeygenPublic]
       ELSE /\ sessions' = FailSession(sessions, id)
            /\ UNCHANGED keys
    /\ started' = [started EXCEPT ![id].running = FALSE]
    /\ UNCHANGED <<session_signers, cur, hist, node_operations, replay, notSignerNode>>

\* How startSign ends for the operation op of a listed session, in the
\* order of its tests; ok is whether the signing protocol yields a
\* signature.  The operation is the session as listed, and what
\* MarkSessionPending is given of it stays as it was listed while the
\* session is Initial.
startSignOutcome(ks, members, op, ok) ==
  LET key == readKeyByFingerPath(ks, op.public)
  IN IF NodeId \notin members THEN "nil"
     ELSE IF key.err THEN "error"
     ELSE IF key.public = "" THEN "FailSession"
     ELSE IF key.curve # op.curve THEN "error"
     ELSE IF Fingerprint(key.public) # op.public THEN "error"
     ELSE IF ~ok THEN "FailSession"
     ELSE "MarkSessionPending"

\* startSign returns, and loopInitialSessions receives what it returned:
\* the store is written as it is when the protocol has ended.
StartSign ==
  \E id \in SessionIds, ok \in BOOLEAN :
    /\ NodeUp
    /\ started[id].running
    /\ sessions[id].operation = OperationTypeSignInput
    /\ LET op == sessions[id]
           members == {m \in MemberSet : session_signers[id][m] # Absent}
           outcome == startSignOutcome(keys, members, op, ok)
           m == MarkSessionPending(sessions, id, op.curve, op.public,
                                   concatMessageAndSignature(Message, ValidSignature))
       IN /\ sessions' = IF outcome = "FailSession" THEN FailSession(sessions, id)
                         ELSE IF outcome = "MarkSessionPending" THEN m.sessions
                         ELSE sessions
          /\ started' = [started EXCEPT ![id] =
                           [calls |-> started[id].calls, running |-> FALSE,
                            err |-> \/ outcome = "error"
                                    \/ (outcome = "MarkSessionPending" /\ m.err)]]
    /\ UNCHANGED <<session_signers, keys, cur, hist, node_operations, replay, notSignerNode>>

\* loopPendingSessions: the node's result is sent and the session marked Done.
LoopPendingSessions ==
  \E id \in SessionIds :
    /\ NodeUp
    /\ sessions[id] # NoRow
    /\ sessions[id].state = RequestStatePending
    /\ sessions' = MarkSessionDone(sessions, id)
    /\ UNCHANGED <<session_signers, keys, cur, hist, node_operations, started, replay,
                   notSignerNode>>

\* The process that a panic ended is started again (NewNode and Boot):
\* node.operations is empty and no goroutine of startOperation runs.  A call
\* of ProcessOutput the panic cut short has returned nothing, and the output
\* it was given is the next one MTG delivers.
RestartNode ==
  /\ ~NodeUp
  /\ node_operations' = {}
  /\ started' = [id \in DOMAIN started |-> NotStarted]
  /\ IF replay.pc \in {"mark", "second"}
     THEN /\ replay' = [ReplayIdleRow EXCEPT !.pc = "boot"]
          /\ hist' = Append(hist, Panic)
     ELSE IF replay.pc = "panic"
     THEN /\ replay' = [ReplayIdleRow EXCEPT !.pc = "boot"]
          /\ UNCHANGED hist
     ELSE UNCHANGED <<replay, hist>>
  /\ UNCHANGED <<sessions, session_signers, keys, cur, notSignerNode>>

----------------------------------------------------------------------------
(* observer: signatures of an approved transaction *)

SafeChainBitcoin == "bitcoin"
SafeChainLitecoin == "litecoin"
SafeChainEthereum == "ethereum"
SafeChainPolygon == "polygon"

\* The public keys of the safe of the transaction: the holder's, and the
\* signer's and the observer's as deriveBIP32WithKeeperPath derives them.
Holder == "holder"
Spk == "signer"
Opk == "observer"

SeqContains(seq, x) == \E i \in DOMAIN seq : seq[i] = x

\* The DER signature the owner of a public key makes of the input's sighash;
\* InvalidSignature is a well formed signature that verifies under no key.
InvalidSignature == "sigInvalid"

SignatureBy(pub) ==
  CASE pub = Holder -> "sigHolder"
    [] pub = Spk -> "sigSigner"
    [] pub = Opk -> "sigObserver"
    [] OTHER -> InvalidSignature

\* bitcoin.VerifySignatureDER(public, hash, signature) of the input's sighash.
VerifySignatureDER(pub, sig) == sig # InvalidSignature /\ sig = SignatureBy(pub)

\* The signer checks of one input without the comparison with the keeper's
\* Done signature of that input index.
SignerSignatureCheckedWithoutKeeper(in) ==
  IF in.ssig.pub # Spk THEN "panic"
  ELSE IF ~VerifySignatureDER(Spk, in.ssig.sig) THEN "panic"
  ELSE "signer"

\* The signer's partial signature of one input: its public key is the derived
\* signer key, its bytes are the keeper's Done signature of the input index,
\* and it verifies against the sighash.
SignerSignatureChecked(in) ==
  IF in.ssig.pub # Spk THEN "panic"
  ELSE IF in.ssig.sig # in.signed THEN "panic"
  ELSE IF ~VerifySignatureDER(Spk, in.ssig.sig) THEN "panic"
  ELSE "signer"

\* keeperCombineBitcoinTransactionSignatures.  tx is the stored approval:
\* per input the partial signatures of the stored PSBT (hsigs, their public
\* keys; hsig, the signature bytes of the first), the partial signature of
\* the keeper's response (ssig) and the keeper's Done signature of the input
\* index (signed).
BitcoinInputSigned(tx, in) ==
  IF ~in.required THEN "skip"
  ELSE IF in.hsigs = <<>> THEN "panic"
  ELSE IF ~tx.recovery /\ in.hsigs[1] # Holder THEN "panic"
  ELSE IF tx.recovery /\ Len(in.hsigs) = 1 /\ in.hsigs[1] # Opk THEN "panic"
  ELSE IF tx.recovery /\ Len(in.hsigs) # 1
          /\ ~(SeqContains(in.hsigs, Holder) /\ SeqContains(in.hsigs, Opk)) THEN "panic"
  ELSE IF tx.recovery /\ Len(in.hsigs) # 1 THEN "holder observer"
  ELSE SignerSignatureChecked(in)

keeperCombineBitcoinTransactionSignatures(tx) ==
  IF tx.state >= RequestStateDone THEN [tx |-> tx, result |-> "nil"]
  ELSE IF tx.chain \notin {SafeChainBitcoin, SafeChainLitecoin}
  THEN [tx |-> tx, result |-> "panic"]
  ELSE IF \E i \in DOMAIN tx.inputs : BitcoinInputSigned(tx, tx.inputs[i]) = "panic"
  THEN [tx |-> tx, result |-> "panic"]
  ELSE [tx |-> [tx EXCEPT
                  !.inputs = [i \in DOMAIN tx.inputs |->
                                IF BitcoinInputSigned(tx, tx.inputs[i]) = "signer"
                                THEN [tx.inputs[i] EXCEPT !.hsigs = Append(@, Spk)]
                                ELSE tx.inputs[i]],
                  !.recoveryState = IF tx.recovery THEN RequestStateDone ELSE @,
                  !.state = RequestStateDone],
        result |-> "finished"]

\* keeperVerifyEthereumTransactionSignatures.  tx.sigs holds the owners that
\* CheckTransactionPartiallySignedBy finds in the raw safe transaction.
keeperVerifyEthereumTransactionSignatures(tx) ==
  IF tx.state >= RequestStateDone THEN [tx |-> tx, result |-> "nil"]
  ELSE IF tx.chain \notin {SafeChainEthereum, SafeChainPolygon}
  THEN [tx |-> tx, result |-> "panic"]
  ELSE IF Cardinality({pub \in {Holder, Opk, Spk} : pub \in tx.sigs}) < 2
  THEN [tx |-> tx, result |-> "error"]
  ELSE [tx |-> [tx EXCEPT !.recoveryState = IF tx.recovery THEN RequestStateDone ELSE @,
                          !.state = RequestStateDone],
        result |-> "finished"]

\* The signatures a raw transaction carries, for either chain family.
SignedBy(tx) ==
  IF tx.chain \in {SafeChainEthereum, SafeChainPolygon} THEN tx.sigs
  ELSE IF tx.inputs = <<>> THEN {}
  ELSE {pub \in {Holder, Opk, Spk} :
          \A i \in DOMAIN tx.inputs :
            tx.inputs[i].required => SeqContains(tx.inputs[i].hsigs, pub)}

PartialSigLists ==
  {<<>>} \cup {<<a>> : a \in {Holder, Opk, Spk}}
         \cup {<<a, b>> : a \in {Holder, Opk}, b \in {Holder, Opk, Spk}}

\* The signature bytes that go with the first partial signature of a list.
FirstSignature(hsigs) == IF hsigs = <<>> THEN "" ELSE SignatureBy(hsigs[1])

SignerPartialSigs ==
  {[pub |-> p, sig |-> sg] : p \in {Spk, Opk}, sg \in {SignatureBy(Spk), InvalidSignature}}

BitcoinInputs ==
  {[required |-> r, hsigs |-> h, hsig |-> FirstSignature(h),
    ssig |-> [pub |-> Spk, sig |-> sg], signed |-> sg] :
     r \in BOOLEAN, h \in PartialSigLists, sg \in {SignatureBy(Spk), InvalidSignature}}
  \cup
  {[required |-> TRUE, hsigs |-> h,
    hsig |-> IF hv THEN FirstSignature(h) ELSE InvalidSignature,
    ssig |-> ss, signed |-> sd] :
     h \in {<<Holder>>, <<Opk>>}, hv \in BOOLEAN,
     ss \in SignerPartialSigs, sd \in {SignatureBy(Spk), InvalidSignature}}

ApprovedTransactions ==
  {[chain |-> c, recovery |-> r, state |-> st, recoveryState |-> IF r THEN RequestStateInitial ELSE 0,
    inputs |-> ins, sigs |-> {}] :
     c \in {SafeChainBitcoin, SafeChainLitecoin}, r \in BOOLEAN,
     st \in {RequestStatePending, RequestStateDone},
     ins \in UNION {[1..n -> BitcoinInputs] : n \in 1..MaxInputs}}
  \cup
  {[chain |-> c, recovery |-> r, state |-> st, recoveryState |-> IF r THEN RequestStateInitial ELSE 0,
    inputs |-> <<>>, sigs |-> sg] :
     c \in {SafeChainEthereum, SafeChainPolygon}, r \in BOOLEAN,
     st \in {RequestStatePending, RequestStateDone},
     sg \in SUBSET {Holder, Opk, Spk}}

ObserverIdle ==
  /\ obsTx = [chain |-> SafeChainBitcoin, recovery |-> FALSE, state |-> RequestStateDone,
              recoveryState |-> 0, inputs |-> <<>>, sigs |-> {}]
  /\ obsResult = ""

CombineBitcoin ==
  LET r == keeperCombineBitcoinTransactionSignatures(obsTx)
  IN /\ obsTx' = r.tx
     /\ obsResult' = r.result
     /\ UNCHANGED notObserver

VerifyEthereum ==
  LET r == keeperVerifyEthereumTransactionSignatures(obsTx)
  IN /\ obsTx' = r.tx
     /\ obsResult' = r.result
     /\ UNCHANGED notObserver

----------------------------------------------------------------------------
(* keeper: network info and operation params (ObserverUpdateNetworkStatus, *)
(* ObserverSetOperationParams)                                             *)

\* keeper/network.go holds an earlier writeNetworkInfo with its own fee floor.
legacyBitcoinMinimumFeeRate == 10
legacyBitcoinMaximumFeeRate == 1000

NetworkChains == {SafeChainBitcoin, SafeChainEthereum}

CurveSecp256k1ECDSABitcoin == "secp256k1-ecdsa-bitcoin"
CurveSecp256k1ECDSALitecoin == "secp256k1-ecdsa-litecoin"
CurveSecp256k1ECDSAEthereum == "secp256k1-ecdsa-ethereum"
CurveSecp256k1ECDSAPolygon == "secp256k1-ecdsa-polygon"

\* common.SafeCurveChain: the chain a request curve belongs to.
SafeCurveChain(curve) ==
  CASE curve = CurveSecp256k1ECDSABitcoin -> SafeChainBitcoin
    [] curve = CurveSecp256k1ECDSALitecoin -> SafeChainLitecoin
    [] curve = CurveSecp256k1ECDSAEthereum -> SafeChainEthereum
    [] curve = CurveSecp256k1ECDSAPolygon -> SafeChainPolygon

\* Block hashes are numbered; hash 0 is one byte short of the 32 bytes of a
\* block hash, every other hash has 32 bytes.
HashBytes(hash) == IF hash = 0 THEN 31 ELSE 32

\* What RPCGetBlock answers when the node does not know the block.
NoBlock == [height |-> 0, confirmations |-> 0, known |-> FALSE]

FeeInRangeLegacy(fee) ==
  ~(fee < legacyBitcoinMinimumFeeRate \/ fee > legacyBitcoinMaximumFeeRate)

\* The fee clause of verifyBitcoinNetworkInfo.
FeeInRange(fee) == ~(fee < bitcoinMinimumFeeRate \/ fee > bitcoinMaximumFeeRate)

\* verifyBitcoinNetworkInfo: "valid", "invalid" (false, nil) or "error".
\* info.Hash is the hex of the hash bytes.
verifyBitcoinNetworkInfo(info, old, block) ==
  LET same == old # NoRow /\ old.hash = info.hash
  IN IF 2 * HashBytes(info.hash) # 64 THEN "invalid"
  ELSE IF same /\ old.height # info.height THEN "error"
  ELSE IF ~same /\ ~block.known THEN "error"
  ELSE IF ~same /\ block.height # info.height THEN "error"
  ELSE IF ~same /\ block.confirmations = -1 THEN "error"
  ELSE IF ~FeeInRange(info.fee) THEN "invalid"
  ELSE "valid"

\* verifyEthereumNetworkInfo: info.Hash is "0x" and the hex of the hash bytes.
verifyEthereumNetworkInfo(info, old, block) ==
  LET same == old # NoRow /\ old.hash = info.hash
  IN IF 2 + 2 * HashBytes(info.hash) # 66 THEN "invalid"
  ELSE IF same /\ old.height # info.height THEN "error"
  ELSE IF ~same /\ ~block.known THEN "error"
  ELSE IF ~same /\ block.height # info.height THEN "error"
  ELSE "valid"

\* store.ReadLatestNetworkInfo and store.WriteNetworkInfoFromRequest: the
\* table keeps, per chain, the info written last.
ReadLatestNetworkInfo(infos, chain) == infos[chain]

WriteNetworkInfoFromRequest(infos, info) == [infos EXCEPT ![info.chain] = info]

NetworkInfoOf(req) ==
  [request_id |-> req.id, chain |-> req.chain, fee |-> req.fee,
   height |-> req.height, hash |-> req.hash]

HeightNeverBelow(old, info) == FALSE

\* The stored height of the chain is above the pushed one.
HeightBelow(old, info) == old # NoRow /\ old.height > info.height

\* writeNetworkInfo.  req.short says that Extra has fewer than 17 bytes;
\* block is what the RPC node answers for the hash.  The result is the new
\* table and how the request ended: "done" (stored), "failed"
\* (failRequest) or "panic".
writeNetworkInfo(infos, req, block) ==
  LET info == NetworkInfoOf(req)
      old == ReadLatestNetworkInfo(infos, req.chain)
      fail == [infos |-> infos, result |-> "failed"]
      panic == [infos |-> infos, result |-> "panic"]
      valid == IF req.chain \in {SafeChainBitcoin, SafeChainLitecoin}
               THEN verifyBitcoinNetworkInfo(info, old, block)
               ELSE verifyEthereumNetworkInfo(info, old, block)
  IN IF req.role # RequestRoleObserver THEN panic
     ELSE IF req.short THEN fail
     ELSE IF old # NoRow /\ old.request_id = req.id THEN fail
     ELSE IF HeightBelow(old, info) THEN fail
     ELSE IF req.chain # SafeCurveChain(req.curve) THEN panic
     ELSE IF valid = "error" THEN panic
     ELSE IF valid = "invalid" THEN fail
     ELSE [infos |-> WriteNetworkInfoFromRequest(infos, info), result |-> "done"]

\* keeper/network.go verifyBitcoinNetworkInfo.
legacyVerifyBitcoinNetworkInfo(info, block) ==
  IF 2 * HashBytes(info.hash) # 64 THEN "invalid"
  ELSE IF ~block.known THEN "error"
  ELSE IF block.height # info.height THEN "error"
  ELSE IF ~FeeInRangeLegacy(info.fee) THEN "invalid"
  ELSE "valid"

\* keeper/network.go writeNetworkInfo: a rejected request is finished
\* ("finished": FinishRequest, nothing stored), an RPC disagreement is
\* returned as an error.
legacyWriteNetworkInfo(infos, req, block) ==
  LET info == NetworkInfoOf(req)
      old == ReadLatestNetworkInfo(infos, req.chain)
      finish == [infos |-> infos, result |-> "finished"]
      valid == legacyVerifyBitcoinNetworkInfo(info, block)
  IN IF req.role # RequestRoleObserver THEN [infos |-> infos, result |-> "panic"]
     ELSE IF req.short THEN finish
     ELSE IF old # NoRow /\ old.request_id = req.id THEN finish
     ELSE IF HeightBelow(old, info) THEN finish
     ELSE IF req.chain = SafeChainEthereum THEN [infos |-> infos, result |-> "panic"]
     ELSE IF req.chain # SafeChainBitcoin THEN finish
     ELSE IF valid = "error" THEN [infos |-> infos, result |-> "error"]
     ELSE IF valid = "invalid" THEN finish
     ELSE [infos |-> WriteNetworkInfoFromRequest(infos, info), result |-> "done"]

\* writeOperationParams.  req.sized says that Extra has exactly 33 bytes.
writeOperationParams(params, req) ==
  IF req.role # RequestRoleObserver THEN [params |-> params, result |-> "panic"]
  ELSE IF ~req.sized THEN [params |-> params, result |-> "failed"]
  ELSE IF req.chain # SafeCurveChain(req.curve)
  THEN [params |-> params, result |-> "panic"]
  ELSE IF req.chain \notin {SafeChainBitcoin, SafeChainLitecoin,
                            SafeChainEthereum, SafeChainPolygon}
  THEN [params |-> params, result |-> "failed"]
  ELSE [params |-> [params EXCEPT ![req.chain] = req.id], result |-> "done"]

\* keeper/network.go writeAccountPlan, the handler that build has for the
\* 33 bytes the observer sends: no test of the curve, a rejected request is
\* finished, and the plan of the chain is stored with the request.
writeAccountPlan(params, req) ==
  IF req.role # RequestRoleObserver THEN [params |-> params, result |-> "panic"]
  ELSE IF ~req.sized THEN [params |-> params, result |-> "finished"]
  ELSE IF req.chain \notin {SafeChainBitcoin, SafeChainEthereum}
  THEN [params |-> params, result |-> "finished"]
  ELSE [params |-> [params EXCEPT ![req.chain] = req.id], result |-> "done"]

----------------------------------------------------------------------------
(* keeper: tables and request handlers *)

\* The keeper serves one holder here; the spare signer and observer keys it
\* assigns to the holder are Spk and Opk.
\* The holder's account proposal; 0 is the id of no proposal.
ProposalIds == {1}
Timelocks == 1..MaxTimelock
Heights == 0..MaxHeight
\* The outputs deposited to the safe: output u is worth u.  The transactions
\* proposed for it, and the amounts a request may ask to spend.
UtxoIds == {1, 2}
TxIds == {1, 2}
SpendAmounts == 1..3

SafeChainMVM == "mvm"

\* handleBondAsset: a snapshot of a bond asset deployed by the factory is
\* sent on to the keeper with the amount it came with.
handleBondAsset(s) ==
  IF s.chain # SafeChainMVM THEN [handled |-> FALSE, amount |-> 0]
  ELSE IF s.deployed <= 0 THEN [handled |-> FALSE, amount |-> 0]
  ELSE [handled |-> TRUE, amount |-> s.amount]

NoSignature == [key |-> "", msg |-> <<>>]

\* buildBitcoinWitnessAccountWithDerivation: the script, and so the address,
\* commits to the three keys and to the timelock.
Address(holder, signer, observer, timelock) == <<holder, signer, observer, timelock>>

ApproveMessage(rid, address) == <<"APPROVE", rid, address>>
RevokeMessage(rid, hash) == <<"REVOKE", rid, hash>>
SigHash(t, u) == <<"SIGHASH", t, u>>

AcceptAnySignature(public, msg, sig) == TRUE

\* VerifyMessageSignature: the signature verifies under the public key over
\* the hash of the message.
VerifyMessageSignature(public, msg, sig) == sig.key = public /\ sig.msg = msg

NextFree(table) ==
  IF \E i \in DOMAIN table : table[i] = NoRow
  THEN CHOOSE i \in DOMAIN table :
         table[i] = NoRow /\ \A j \in DOMAIN table : table[j] = NoRow => i <= j
  ELSE 0

RECURSIVE SumAmounts(_, _)
SumAmounts(outs, S) ==
  IF S = {} THEN 0
  ELSE LET u == CHOOSE x \in S : TRUE
       IN outs[u].amount + SumAmounts(outs, S \ {u})

RECURSIVE SumTransactions(_, _)
SumTransactions(txs, S) ==
  IF S = {} THEN 0
  ELSE LET t == CHOOSE x \in S : TRUE
       IN txs[t].amount + SumTransactions(txs, S \ {t})

\* What ProcessOutput returns for a request: the transactions of a request
\* that is done, none for one that failed, and no asset.  writeNetworkInfo
\* ends in `return nil, ""`: a network status that was stored returns no
\* transaction either.
KeeperTransactions(req, result) ==
  [txs |-> IF result = "done" /\ req.action # "ObserverUpdateNetworkStatus"
           THEN <<[response |-> req.action]>> ELSE <<>>,
   asset |-> ""]

NothingReturned == [txs |-> <<>>, asset |-> "none"]

\* The request at the head of the queue: how it ended, and what its
\* delivery returned, which the action-result cache keeps.
Result(req, result) ==
  [action |-> req.action, result |-> result,
   sig |-> IF req.action = "SafeApproveAccount" /\ result = "done"
           THEN req.sig ELSE NoSignature,
   ret |-> IF result = "panic" THEN NothingReturned
           ELSE KeeperTransactions(req, result)]

\* store.ReadActionResult: the transactions written with the request.
ReadActionResult(last) == last.ret

keeperDone(k, req) == [k EXCEPT !.last = Result(req, "done")]

\* failRequest: the request is marked Failed and nothing else is written.
failRequest(k, req) == [k EXCEPT !.last = Result(req, "failed")]

keeperPanic(k, req) == [k EXCEPT !.last = Result(req, "panic")]

\* SafeProposeAccount
processSafeProposeAccount(k, req) ==
  LET p == NextFree(k.proposals)
      address == Address(req.holder, Spk, Opk, req.timelock)
  IN IF k.safes[req.holder] # NoRow THEN failRequest(k, req)
     ELSE IF \E q \in ProposalIds :
               k.proposals[q] # NoRow /\ k.proposals[q].address = address
     THEN failRequest(k, req)
     ELSE keeperDone([k EXCEPT !.proposals[p] =
                        [request_id |-> p, holder |-> req.holder, signer |-> Spk,
                         observer |-> Opk, timelock |-> req.timelock,
                         address |-> address]], req)

\* SafeApproveAccount
processSafeApproveAccount(k, req) ==
  LET sp == IF req.rid \in DOMAIN k.proposals THEN k.proposals[req.rid] ELSE NoRow
  IN IF sp = NoRow THEN failRequest(k, req)
     ELSE IF k.safes[req.holder] # NoRow THEN failRequest(k, req)
     ELSE IF ~VerifyMessageSignature(sp.holder, ApproveMessage(req.rid, sp.address), req.sig)
     THEN failRequest(k, req)
     ELSE keeperDone([k EXCEPT !.safes[req.holder] =
                        [holder |-> sp.holder, signer |-> sp.signer,
                         observer |-> sp.observer, timelock |-> sp.timelock,
                         address |-> sp.address, state |-> RequestStateDone]], req)

\* ObserverUpdateNetworkStatus of the safe's chain: writeNetworkInfo on a
\* push that names the block the chain has at the pushed height, which the
\* RPC node knows.  Block h has hash h + 1.
keeperWriteNetworkInfo(k, req) ==
  LET latest == [request_id |-> 0, chain |-> SafeChainBitcoin,
                 fee |-> bitcoinMinimumFeeRate, height |-> k.height,
                 hash |-> k.height + 1]
      r == writeNetworkInfo(
             [c \in NetworkChains |-> IF c = SafeChainBitcoin THEN latest ELSE NoRow],
             [id |-> 1, role |-> req.role, short |-> FALSE,
              curve |-> CurveSecp256k1ECDSABitcoin, chain |-> SafeChainBitcoin,
              fee |-> req.fee, height |-> req.height, hash |-> req.height + 1],
             [known |-> TRUE, height |-> req.height, confirmations |-> 1])
  IN CASE r.result = "done" ->
            keeperDone([k EXCEPT !.height = r.infos[SafeChainBitcoin].height], req)
       [] r.result = "failed" -> failRequest(k, req)
       [] r.result = "panic" -> keeperPanic(k, req)

WriteBitcoinUTXOOverwrite(outs, u, utxo) ==
  IF utxo.state # RequestStateInitial THEN [panic |-> TRUE, outs |-> outs]
  ELSE [panic |-> FALSE, outs |-> [outs EXCEPT ![u] = utxo]]

\* WriteBitcoinUTXOIfNotExists: panics on an output that is not Initial;
\* a row with the (transaction_hash, output_index) u is left as it is,
\* otherwise the output is inserted.
WriteBitcoinUTXOIfNotExists(outs, u, utxo) ==
  IF utxo.state # RequestStateInitial THEN [panic |-> TRUE, outs |-> outs]
  ELSE IF checkExistence(outs, u) THEN [panic |-> FALSE, outs |-> outs]
  ELSE [panic |-> FALSE, outs |-> [outs EXCEPT ![u] = utxo]]

MintOnEveryDeposit(k, u) == TRUE

\* ObserverHolderDeposit records an output once.
DepositIsNew(k, u) == k.utxos[u] = NoRow

\* ObserverHolderDeposit
processHolderDeposit(k, req) ==
  LET w == WriteBitcoinUTXOIfNotExists(k.utxos, req.utxo,
             [state |-> RequestStateInitial, amount |-> req.amount,
              height |-> req.height, spent_by |-> 0])
  IN IF k.safes[req.holder].state # RequestStateDone THEN failRequest(k, req)
     ELSE IF ~DepositIsNew(k, req.utxo) THEN failRequest(k, req)
     ELSE IF w.panic THEN keeperPanic(k, req)
     ELSE keeperDone([k EXCEPT !.utxos = w.outs,
                               !.bond.minted = @ + req.amount], req)

AssignableUnlessSpent(utxo) == utxo.state # RequestStateDone

\* An output can be assigned while no transaction holds it.
Assignable(utxo) == utxo.state = RequestStateInitial

Unassigned(outs) == {u \in UtxoIds : outs[u] # NoRow /\ Assignable(outs[u])}

\* The n oldest outputs of S; outputs are recorded in the order of their ids.
Oldest(S, n) == {u \in S : Cardinality({v \in S : v <= u}) <= n}

\* The inputs of a transaction paying amount: the oldest unassigned outputs,
\* as many as take says, if they cover the amount; none otherwise.
SelectInputs(outs, amount, take) ==
  LET S == Oldest(Unassigned(outs), take)
  IN IF SumAmounts(outs, S) >= amount THEN S ELSE {}

\* The holder pays the exact spend amount in the bond asset.
PaymentMatches(paid, amount) == paid = amount

Unfinished(txs) ==
  {t \in TxIds : txs[t] # NoRow
                 /\ txs[t].state \in {RequestStateInitial, RequestStatePending}}

\* SafeProposeTransaction; extra[0] = 1 proposes the recovery transaction,
\* which takes every unassigned output.
processSafeProposeTransaction(k, req) ==
  LET t == NextFree(k.txs)
      all == Unassigned(k.utxos)
      inputs == IF req.recovery THEN all
                ELSE SelectInputs(k.utxos, req.amount, req.take)
      amount == IF req.recovery THEN SumAmounts(k.utxos, all) ELSE req.amount
  IN IF k.safes[req.holder].state # RequestStateDone THEN failRequest(k, req)
     ELSE IF inputs = {} THEN failRequest(k, req)
     ELSE IF ~PaymentMatches(req.bond, amount) THEN failRequest(k, req)
     ELSE keeperDone([k EXCEPT
            !.txs[t] = [state |-> RequestStateInitial, recovery |-> req.recovery,
                        inputs |-> inputs, amount |-> amount, bond |-> req.bond,
                        sigs |-> [u \in inputs |-> 0]],
            !.utxos = [u \in UtxoIds |->
                         IF u \in inputs
                         THEN [k.utxos[u] EXCEPT !.state = RequestStatePending,
                                                 !.spent_by = t]
                         ELSE k.utxos[u]],
            !.bond.held = @ + req.bond], req)

FailTransactionOnly(k, t) == [k EXCEPT !.txs[t].state = RequestStateFailed]

\* The transaction ends Failed, its outputs return to Initial and the bond
\* paid for it is refunded.
ReleaseTransaction(k, t) ==
  [k EXCEPT
     !.txs[t].state = RequestStateFailed,
     !.utxos = [u \in UtxoIds |->
                  IF u \in k.txs[t].inputs /\ k.utxos[u].spent_by = t
                  THEN [k.utxos[u] EXCEPT !.state = RequestStateInitial, !.spent_by = 0]
                  ELSE k.utxos[u]],
     !.bond.held = @ - k.txs[t].bond]

\* SafeApproveTransaction
processSafeApproveTransaction(k, req) ==
  LET tx == k.txs[req.tx]
  IN IF tx = NoRow THEN failRequest(k, req)
     ELSE IF tx.state # RequestStateInitial \/ tx.recovery THEN failRequest(k, req)
     ELSE IF ~VerifyMessageSignature(req.holder, SigHash(req.tx, 0), req.sig)
     THEN failRequest(ReleaseTransaction(k, req.tx), req)
     ELSE keeperDone([k EXCEPT
            !.txs[req.tx].state = RequestStatePending,
            !.txs[req.tx].sigs = [u \in tx.inputs |-> RequestStateInitial]], req)

\* SafeRevokeTransaction
processSafeRevokeTransaction(k, req) ==
  LET tx == k.txs[req.tx]
  IN IF tx = NoRow THEN failRequest(k, req)
     ELSE IF tx.state # RequestStateInitial THEN failRequest(k, req)
     ELSE IF /\ ~VerifyMessageSignature(req.holder, RevokeMessage(req.tx, req.tx), req.sig)
             /\ ~VerifyMessageSignature(k.safes[req.holder].observer,
                                        RevokeMessage(req.tx, req.tx), req.sig)
     THEN failRequest(k, req)
     ELSE keeperDone(ReleaseTransaction(k, req.tx), req)

SomeSigned(sigs) == \E u \in DOMAIN sigs : sigs[u] = RequestStatePending

\* The transaction is finished once every input has its signature.
AllSigned(sigs) == \A u \in DOMAIN sigs : sigs[u] = RequestStatePending

\* The signer's response with the signature of one input.
processSignerSignatureResponse(k, req) ==
  LET tx == k.txs[req.tx]
      signed == [tx.sigs EXCEPT ![req.input] = RequestStatePending]
  IN IF req.role # RequestRoleSigner THEN keeperPanic(k, req)
     ELSE IF tx = NoRow THEN failRequest(k, req)
     ELSE IF tx.state # RequestStatePending THEN failRequest(k, req)
     ELSE IF req.input \notin tx.inputs THEN failRequest(k, req)
     ELSE IF tx.sigs[req.input] # RequestStateInitial THEN failRequest(k, req)
     ELSE IF ~VerifyMessageSignature(Spk, SigHash(req.tx, req.input), req.sig)
     THEN failRequest(k, req)
     ELSE IF ~AllSigned(signed)
     THEN keeperDone([k EXCEPT !.txs[req.tx].sigs = signed], req)
     ELSE keeperDone([k EXCEPT
            !.txs[req.tx].sigs = [u \in tx.inputs |->
                                    IF signed[u] = RequestStatePending
                                    THEN RequestStateDone ELSE signed[u]],
            !.txs[req.tx].state = RequestStateDone,
            !.utxos = [u \in UtxoIds |->
                         IF u \in tx.inputs
                         THEN [k.utxos[u] EXCEPT !.state = RequestStateDone]
                         ELSE k.utxos[u]],
            !.bond.held = @ - tx.bond,
            !.bond.burned = @ + tx.bond], req)

TimelockIgnored(latest, deposit, timelock) == TRUE

\* The timelock of an output has expired at the latest known height.
TimelockExpired(latest, deposit, timelock) == latest - deposit >= timelock

MarkSafeFailedAndRekey(safe) ==
  [safe EXCEPT !.state = RequestStateFailed, !.observer = safe.holder]

MarkSafeFailed(safe) == [safe EXCEPT !.state = RequestStateFailed]

\* SafeCloseAccount.  req.tx names the recovery transaction the signer is to
\* co-sign with the observer, or is 0 (uuid.Nil) when the request carries the
\* transaction presigned by the holder; req.signers are the keys whose
\* partial signatures the request's transaction carries.
closeAccount(k, req) ==
  LET safe == k.safes[req.holder]
      t == IF req.tx = 0 THEN NextFree(k.txs) ELSE req.tx
      inputs == IF req.tx = 0 THEN Unassigned(k.utxos)
                ELSE IF k.txs[t] = NoRow THEN {} ELSE k.txs[t].inputs
  IN IF safe.state # RequestStateDone THEN failRequest(k, req)
     ELSE IF Opk \notin req.signers THEN failRequest(k, req)
     ELSE IF req.tx = 0 /\ (req.holder \notin req.signers \/ Unfinished(k.txs) # {})
     THEN failRequest(k, req)
     ELSE IF req.tx # 0 /\ (k.txs[t] = NoRow \/ k.txs[t].state # RequestStateInitial)
     THEN failRequest(k, req)
     ELSE IF req.tx # 0 /\ ~k.txs[t].recovery THEN failRequest(k, req)
     ELSE IF inputs = {} THEN failRequest(k, req)
     ELSE IF \E u \in inputs :
               ~TimelockExpired(k.height, k.utxos[u].height, safe.timelock)
     THEN failRequest(k, req)
     ELSE IF req.tx = 0
     THEN keeperDone([k EXCEPT
            !.txs[t] = [state |-> RequestStateDone, recovery |-> TRUE,
                        inputs |-> inputs, amount |-> SumAmounts(k.utxos, inputs),
                        bond |-> 0, sigs |-> [u \in inputs |-> 0]],
            !.utxos = [u \in UtxoIds |->
                         IF u \in inputs
                         THEN [k.utxos[u] EXCEPT !.state = RequestStateDone,
                                                 !.spent_by = t]
                         ELSE k.utxos[u]],
            !.safes[req.holder] = MarkSafeFailed(safe)], req)
     ELSE keeperDone([k EXCEPT
            !.txs[t].state = RequestStatePending,
            !.txs[t].sigs = [u \in inputs |-> RequestStateInitial],
            !.safes[req.holder] = MarkSafeFailed(safe)], req)

\* ProcessOutput: a request whose id is stored is not processed again.
KeeperProcessOutput(k, req) ==
  IF req.stored THEN k
  ELSE CASE req.action = "SafeProposeAccount" -> processSafeProposeAccount(k, req)
         [] req.action = "SafeApproveAccount" -> processSafeApproveAccount(k, req)
         [] req.action = "ObserverUpdateNetworkStatus" -> keeperWriteNetworkInfo(k, req)
         [] req.action = "ObserverHolderDeposit" -> processHolderDeposit(k, req)
         [] req.action = "SafeProposeTransaction" -> processSafeProposeTransaction(k, req)
         [] req.action = "SafeApproveTransaction" -> processSafeApproveTransaction(k, req)
         [] req.action = "SafeRevokeTransaction" -> processSafeRevokeTransaction(k, req)
         [] req.action = "SignerSignatureResponse" -> processSignerSignatureResponse(k, req)
         [] req.action = "SafeCloseAccount" -> closeAccount(k, req)

\* What ProcessOutput returns: for a request whose id is stored, the
\* transactions the action-result cache holds, and otherwise those of the
\* handler.
KeeperReturns(k, req) ==
  IF req.stored THEN ReadActionResult(k.last)
  ELSE KeeperProcessOutput(k, req).last.ret

----------------------------------------------------------------------------
(* The keeper driven request by request *)

keeperState ==
  [proposals |-> safe_proposals, safes |-> safes, utxos |-> utxos,
   txs |-> transactions, height |-> height, bond |-> bond, last |-> lastRequest]

KeeperIdle ==
  /\ utxos = [u \in UtxoIds |-> NoRow]
  /\ transactions = [t \in TxIds |-> NoRow]
  /\ height = 0
  /\ bond = [minted |-> 0, held |-> 0, burned |-> 0]
  /\ lastRequest = [action |-> "", result |-> "", sig |-> NoSignature,
                    ret |-> NothingReturned]

\* A handler that panics stops the node; the request stays at the head of
\* the queue.
KeeperRunning == lastRequest.result # "panic"

NoNetworkInfo == [c \in NetworkChains |-> NoRow]
NoOperationParams == [c \in NetworkChains |-> 0]

NetworkIdle ==
  /\ network_infos = NoNetworkInfo
  /\ operation_params = NoOperationParams
  /\ keeperBuild = "part_003"


----------------------------------------------------------------------------
(* keeper: keygen requests to the signer group *)

SignerKeygenMaximum == 128
ActionObserverRequestSignerKeys == "ObserverRequestSignerKeys"

\* new(big.Int).SetString(req.Extra, 16) on the hex of the Extra bytes: no
\* number for an empty string, otherwise the big-endian value of the bytes.
RECURSIVE HexValue(_)
HexValue(extra) ==
  IF Len(extra) = 0 THEN 0
  ELSE 256 * HexValue(SubSeq(extra, 1, Len(extra) - 1)) + extra[Len(extra)]

HexParses(extra) == Len(extra) > 0

DigitChars == <<"0", "1", "2", "3", "4", "5", "6", "7", "8", "9">>

RECURSIVE DecimalDigits(_)
DecimalDigits(n) ==
  IF n < 10 THEN <<DigitChars[n + 1]>>
  ELSE Append(DecimalDigits(n \div 10), DigitChars[(n % 10) + 1])

\* fmt.Sprintf("%8d", i): the decimal digits of i, padded with blanks on the
\* left to a width of 8.
Sprintf8d(i) ==
  LET d == DecimalDigits(i)
  IN IF Len(d) >= 8 THEN d ELSE [k \in 1..(8 - Len(d)) |-> " "] \o d

\* fmt.Sprintf("MTG:%v:%d", members, threshold)
SprintfMTG(members, threshold) == <<"MTG", members, threshold>>

\* mixin.UniqueConversationID: a UUID from the MD5 digest of the two
\* strings; the digest is taken to be free of collisions.
UniqueConversationID(a, b) == <<a, b>>

KeygenOperationIdWithoutIndex(id, i) ==
  UniqueConversationID(UniqueConversationID(id, Sprintf8d(0)),
                       SprintfMTG(Members, SignerThreshold))

\* The op.Id of the i-th keygen input of request id.
KeygenOperationId(id, i) ==
  UniqueConversationID(UniqueConversationID(id, Sprintf8d(i)),
                       SprintfMTG(Members, SignerThreshold))

BatchAtLeastOne(batch) == batch >= 1

\* The batch count is from 1 to SignerKeygenMaximum.
BatchInRange(batch) == ~(batch < 1 \/ batch > SignerKeygenMaximum)

\* sendSignerKeygenRequest: the operations handed to buildSignerTransaction,
\* the requests table after FinishRequest, and what the call returned.
sendSignerKeygenRequest(rs, req) ==
  LET finish == FinishRequest(rs, req.id)
      batch == HexValue(req.extra)
      none == [requests |-> finish.requests, ops |-> <<>>, ret |-> finish.ret]
  IN IF req.role # RequestRoleObserver
     THEN [requests |-> rs, ops |-> <<>>, ret |-> "panic"]
     ELSE IF req.action # ActionObserverRequestSignerKeys
     THEN [requests |-> rs, ops |-> <<>>, ret |-> "panic"]
     ELSE IF req.curve # CurveSecp256k1ECDSABitcoin THEN none
     ELSE IF ~HexParses(req.extra) \/ ~BatchInRange(batch) THEN none
     ELSE [requests |-> finish.requests,
           ops |-> [k \in 1..batch |->
                      [id |-> KeygenOperationId(req.id, k - 1),
                       type |-> OperationTypeKeygenInput, curve |-> req.curve,
                       public |-> "", extra |-> <<>>]],
           ret |-> finish.ret]

\* The keygen requests the observer sends, and the session ids they can
\* ask for.
KeygenRequestIds == {1, 2}
KeygenSessionIds ==
  {KeygenOperationId(id, i) :
     id \in KeygenRequestIds, i \in 0..(SignerKeygenMaximum - 1)}

\* keeper store: the keys table.  A key is enrolled with the role of the
\* request that brings it and no holder; a key without holder is spare.
KeeperKeyPublics == {"k1", "k2", "k3"}
NoHolder == ""

\* CountSpareKeys: the keys of the role that no holder is assigned to.
SpareKeys(ks, role) ==
  {p \in KeeperKeyPublics :
     ks[p] # NoRow /\ ks[p].role = role /\ ks[p].holder = NoHolder}

CountSpareKeys(ks, role) == Cardinality(SpareKeys(ks, role))

EnrolledKeys(ks, role) ==
  {p \in KeeperKeyPublics : ks[p] # NoRow /\ ks[p].role = role}

\* The key of the set that was enrolled first.
FirstEnrolled(ks, S) ==
  IF S = {} THEN ""
  ELSE CHOOSE p \in S : \A q \in S : ks[p].created <= ks[q].created

\* A keygen output of the signers or ObserverAddKey: the key is written
\* with the request's role unless the public key is in the table.
processKeyAdd(ks, req) ==
  IF req.role \notin {RequestRoleSigner, RequestRoleObserver}
  THEN [keys |-> ks, result |-> "failed"]
  ELSE IF ks[req.public] # NoRow THEN [keys |-> ks, result |-> "failed"]
  ELSE [keys |-> [ks EXCEPT ![req.public] =
                    [role |-> req.role, holder |-> NoHolder,
                     created |-> Cardinality({p \in KeeperKeyPublics : ks[p] # NoRow})]],
        result |-> "done"]

AssignAnyKeys(ks, holder) ==
  LET signer == FirstEnrolled(ks, EnrolledKeys(ks, RequestRoleSigner))
      observer == FirstEnrolled(ks, EnrolledKeys(ks, RequestRoleObserver))
  IN IF signer = "" \/ observer = ""
     THEN [keys |-> ks, signer |-> "", observer |-> ""]
     ELSE [keys |-> [ks EXCEPT ![signer].holder = holder, ![observer].holder = holder],
           signer |-> signer, observer |-> observer]

\* The proposal takes the first spare signer key and the first spare
\* observer key and assigns the holder to both; without one of each
\* nothing is assigned.
AssignSignerAndObserverToHolder(ks, holder) ==
  LET signer == FirstEnrolled(ks, SpareKeys(ks, RequestRoleSigner))
      observer == FirstEnrolled(ks, SpareKeys(ks, RequestRoleObserver))
  IN IF signer = "" \/ observer = ""
     THEN [keys |-> ks, signer |-> "", observer |-> ""]
     ELSE [keys |-> [ks EXCEPT ![signer].holder = holder, ![observer].holder = holder],
           signer |-> signer, observer |-> observer]

\* SafeProposeAccount on the keys table: the keys are assigned and the
\* proposal is written with them, or the request fails and nothing changes.
processProposeAccountKeys(rs, sps, ks, req) ==
  LET a == AssignSignerAndObserverToHolder(ks, req.holder)
      w == WriteSafeProposalWithRequest(rs, sps,
             [state |-> RequestStateDone, request_id |-> req.id,
              holder |-> req.holder, signer |-> a.signer, observer |-> a.observer])
      failed == [requests |-> rs, safe_proposals |-> sps, keys |-> ks,
                 result |-> "failed"]
  IN IF req.role # RequestRoleHolder THEN failed
     ELSE IF a.signer = "" \/ a.observer = "" THEN failed
     ELSE IF w.ret # "nil" THEN failed
     ELSE [requests |-> w.requests, safe_proposals |-> w.safe_proposals,
           keys |-> a.keys, result |-> "done"]

\* SafeApproveAccount on the keys table: the safe is written with the keys
\* of the proposal; the keys table is not written.
processApproveAccountKeys(rs, ss, sps, req) ==
  LET sp == sps[req.rid]
      w == WriteSafeWithRequest(rs, ss,
             [state |-> RequestStateDone, request_id |-> req.id,
              holder |-> sp.holder, signer |-> sp.signer, observer |-> sp.observer])
      failed == [requests |-> rs, safes |-> ss, result |-> "failed"]
  IN IF sp = NoRow THEN failed
     ELSE IF req.holder # sp.holder THEN failed
     ELSE IF w.ret # "nil" THEN failed
     ELSE [requests |-> w.requests, safes |-> w.safes, result |-> "done"]

KeysIdle ==
  /\ signer_ops = <<>>
  /\ signer_read = 0
  /\ keeper_keys = [p \in KeeperKeyPublics |-> NoRow]

Signatures(signer, msgs) == [key : {signer, Opk}, msg : msgs]

Deliver(req) ==
  LET k == KeeperProcessOutput(keeperState, req)
  IN /\ safe_proposals' = k.proposals
     /\ safes' = k.safes
     /\ utxos' = k.utxos
     /\ transactions' = k.txs
     /\ height' = k.height
     /\ bond' = k.bond
     /\ lastRequest' = k.last
     /\ UNCHANGED notKeeper

DeliverSafeProposeAccount ==
  \E h \in StoreHolders, t \in Timelocks :
    /\ KeeperRunning
    /\ NextFree(safe_proposals) # 0
    /\ Deliver([stored |-> FALSE, action |-> "SafeProposeAccount",
                role |-> RequestRoleHolder, holder |-> h, timelock |-> t])

DeliverSafeApproveAccount ==
  \E h \in StoreHolders, rid \in ProposalIds \cup {0} :
    \E sig \in Signatures(h, {ApproveMessage(q, Address(h, Spk, Opk, t)) :
                                q \in ProposalIds \cup {0}, t \in Timelocks}) :
      /\ KeeperRunning
      /\ Deliver([stored |-> FALSE, action |-> "SafeApproveAccount",
                  role |-> RequestRoleObserver, holder |-> h, rid |-> rid, sig |-> sig])

DeliverObserverUpdateNetworkStatus ==
  \E role \in {RequestRoleObserver, RequestRoleHolder}, h \in Heights, fee \in 0..1 :
    /\ KeeperRunning
    /\ role = RequestRoleHolder => (h = height /\ fee = 1)
    /\ Deliver([stored |-> FALSE, action |-> "ObserverUpdateNetworkStatus",
                role |-> role, height |-> h, fee |-> fee])

DeliverObserverHolderDeposit ==
  \E h \in StoreHolders, u \in UtxoIds :
    /\ KeeperRunning
    /\ utxos[u] # NoRow \/ u = NextFree(utxos)
    /\ Deliver([stored |-> FALSE, action |-> "ObserverHolderDeposit",
                role |-> RequestRoleObserver, holder |-> h, utxo |-> u,
                amount |-> u, height |-> height])

DeliverSafeProposeTransaction ==
  \E h \in StoreHolders, amount \in SpendAmounts, paid \in SpendAmounts,
     take \in UtxoIds, recovery \in BOOLEAN :
    LET s == handleBondAsset([chain |-> SafeChainMVM, deployed |-> 1, amount |-> paid])
    IN
    /\ KeeperRunning
    /\ NextFree(transactions) # 0
    /\ s.handled
    /\ recovery => (amount = paid /\ take = 1)
    /\ ~recovery => paid \in {amount, 1}
    /\ Deliver([stored |-> FALSE, action |-> "SafeProposeTransaction",
                role |-> RequestRoleHolder, holder |-> h, amount |-> amount,
                bond |-> s.amount,
                take |-> take, recovery |-> recovery])

DeliverSafeApproveTransaction ==
  \E h \in StoreHolders, t \in TxIds :
    \E sig \in Signatures(h, {SigHash(t, 0)}) :
      /\ KeeperRunning
      /\ Deliver([stored |-> FALSE, action |-> "SafeApproveTransaction",
                  role |-> RequestRoleObserver, holder |-> h, tx |-> t, sig |-> sig])

DeliverSafeRevokeTransaction ==
  \E h \in StoreHolders, t \in TxIds :
    \E sig \in Signatures(h, {RevokeMessage(t, t)}) :
      /\ KeeperRunning
      /\ Deliver([stored |-> FALSE, action |-> "SafeRevokeTransaction",
                  role |-> RequestRoleObserver, holder |-> h, tx |-> t, sig |-> sig])

DeliverSignerSignatureResponse ==
  \E t \in TxIds, u \in UtxoIds :
    \E sig \in Signatures(Spk, {SigHash(t, u)}) :
      /\ KeeperRunning
      /\ Deliver([stored |-> FALSE, action |-> "SignerSignatureResponse",
                  role |-> RequestRoleSigner, tx |-> t, input |-> u, sig |-> sig])

DeliverSafeCloseAccount ==
  \E h \in StoreHolders, t \in TxIds \cup {0} :
    \E signers \in SUBSET {h, Opk} :
    /\ KeeperRunning
    /\ t = 0 => NextFree(transactions) # 0
    /\ Deliver([stored |-> FALSE, action |-> "SafeCloseAccount",
                role |-> RequestRoleObserver, holder |-> h, tx |-> t,
                signers |-> signers])

\* MTG delivers the request at the head of its queue again.
RedeliverRequest ==
  /\ lastRequest.action # ""
  /\ Deliver([stored |-> TRUE, action |-> lastRequest.action])

----------------------------------------------------------------------------
(* The keeper's network requests: the observer's pushes *)

NetworkRequestIds == {1, 2}
NetworkCurves == {CurveSecp256k1ECDSABitcoin, CurveSecp256k1ECDSAEthereum}
NetworkFees == {0, 1, 10}
NetworkHashes == 0..2
\* What the RPC node may answer for a hash: nothing, or a block with its
\* height and confirmations (-1 for a block off the main chain).
Blocks(req) ==
  {NoBlock} \cup [known : {TRUE}, height : Heights, confirmations : {1}]
            \cup {[known |-> TRUE, height |-> req.height, confirmations |-> -1]}

NetworkStatusRequests ==
  [id : NetworkRequestIds, role : {RequestRoleObserver}, short : BOOLEAN,
   curve : NetworkCurves, chain : NetworkChains, fee : NetworkFees,
   height : Heights, hash : NetworkHashes]

\* A returned error or a panic stops the node at the request.
NetworkRunning == lastRequest.result \notin {"panic", "error"}

\* The writeNetworkInfo of the build the node runs.
handleNetworkStatus(infos, req, block) ==
  IF keeperBuild = "part_003"
  THEN writeNetworkInfo(infos, req, block)
  ELSE legacyWriteNetworkInfo(infos, req, block)

\* ObserverUpdateNetworkStatus, handled by the writeNetworkInfo of the build.
DeliverNetworkStatus ==
  \E req \in NetworkStatusRequests : \E block \in Blocks(req) :
    LET r == handleNetworkStatus(network_infos, req, block)
    IN /\ NetworkRunning
       /\ req.short => (req.fee = 1 /\ req.hash = 1 /\ req.height = 0 /\ block = NoBlock)
       /\ req.hash = 0 => (req.fee = 1 /\ req.height = 0 /\ block = NoBlock)
       /\ req.chain = SafeChainEthereum => req.fee = 1
       /\ network_infos' = r.infos
       /\ lastRequest' = [action |-> "ObserverUpdateNetworkStatus",
                          result |-> r.result, sig |-> NoSignature]
       /\ UNCHANGED <<operation_params, keeperBuild, notNetwork>>

\* The handler the build has for the observer's 33 bytes of parameters.
handleOperationParams(params, req) ==
  IF keeperBuild = "part_003"
  THEN writeOperationParams(params, req)
  ELSE writeAccountPlan(params, req)

\* ObserverSetAccountPlan, in the build of keeper/network.go.
DeliverAccountPlan ==
  \E id \in {1}, sized \in BOOLEAN, curve \in NetworkCurves,
     chain \in NetworkChains :
    LET r == writeAccountPlan(operation_params,
               [id |-> id, role |-> RequestRoleObserver, sized |-> sized,
                curve |-> curve, chain |-> chain])
    IN /\ NetworkRunning
       /\ keeperBuild = "network.go"
       /\ operation_params' = r.params
       /\ lastRequest' = [action |-> "ObserverSetAccountPlan",
                          result |-> r.result, sig |-> NoSignature]
       /\ UNCHANGED <<network_infos, keeperBuild, notNetwork>>

\* ObserverSetOperationParams, in the build of part_003.
DeliverOperationParams ==
  \E id \in {1}, sized \in BOOLEAN, curve \in NetworkCurves,
     chain \in NetworkChains :
    LET r == writeOperationParams(operation_params,
               [id |-> id, role |-> RequestRoleObserver, sized |-> sized,
                curve |-> curve, chain |-> chain])
    IN /\ NetworkRunning
       /\ keeperBuild = "part_003"
       /\ operation_params' = r.params
       /\ lastRequest' = [action |-> "ObserverSetOperationParams",
                          result |-> r.result, sig |-> NoSignature]
       /\ UNCHANGED <<network_infos, keeperBuild, notNetwork>>

----------------------------------------------------------------------------
(* The keeper's keygen requests and the signer that receives them *)

KeygenCurves == {CurveSecp256k1ECDSABitcoin, CurveSecp256k1ECDSAEthereum}
\* Extra of a request: no byte, or the batch count in one or two bytes.
KeygenExtras ==
  {<<>>, <<0>>, <<1>>, <<2>>, <<0, 2>>, <<1, 0>>,
   <<SignerKeygenMaximum>>, <<SignerKeygenMaximum + 1>>}

\* ObserverRequestSignerKeys: the request is written to the requests table
\* when it is new and handled by sendSignerKeygenRequest; MTG may deliver a
\* stored request again.
DeliverRequestSignerKeys ==
  \E id \in KeygenRequestIds, curve \in KeygenCurves, extra \in KeygenExtras :
    LET isNew == requests[id] = NoRow
        row == IF isNew
               THEN [state |-> RequestStateInitial, role |-> RequestRoleObserver,
                     created_at |-> 1, curve |-> curve, extra |-> extra]
               ELSE requests[id]
        r == sendSignerKeygenRequest(
               [requests EXCEPT ![id] = row],
               [id |-> id, role |-> row.role,
                action |-> ActionObserverRequestSignerKeys,
                curve |-> row.curve, extra |-> row.extra])
    IN /\ Len(signer_ops) < MaxKeygenOps
       /\ ~isNew => (curve = row.curve /\ extra = row.extra)
       /\ requests' = r.requests
       /\ signer_ops' = signer_ops \o r.ops
       /\ lastOp' = [op |-> "sendSignerKeygenRequest", id |-> id, ret |-> r.ret]
       /\ UNCHANGED <<safe_proposals, safes, signerVars, obsVars, spendVars, wireVars, queueVars, lateVars, keeperVars,
                      networkVars, signer_read, keeper_keys>>

\* The signer group receives the next operation of the keeper as an output
\* of the keeper asset: ProcessOutput is called on it and its first
\* processAction runs.
SignerReceiveOperation ==
  LET out == [deposit |-> FALSE, asset |-> KeeperAssetId, amount |-> 1,
              senders |-> <<>>, op |-> signer_ops[signer_read + 1]]
  IN /\ signer_read < Len(signer_ops)
     /\ replay.pc \in {"idle", "checked"}
     /\ cur' = out
     /\ signer_read' = signer_read + 1
     /\ RunBegins(1, out, 1, NoRun, FALSE, <<>>)
     /\ UNCHANGED <<storeVars, keys, obsVars, spendVars, wireVars, queueVars, receiveVars,
                    pendingVars, snapshotVars, keeperVars, networkVars, signer_ops,
                    keeper_keys>>

\* The second processAction of that call, which starts with the network call
\* of verifyKernelTransaction, and mtg.ReplayCheck; the keeper sends its
\* next operations meanwhile.
SignerReplayOperation ==
  /\ replay.pc = "second"
  /\ RunBegins(2, cur, replay.balance, replay.first, sessions # replay.seen, hist)
  /\ UNCHANGED <<storeVars, keys, cur, obsVars, spendVars, wireVars, queueVars, receiveVars,
                 pendingVars, snapshotVars, keeperVars, networkVars, keysVars>>

----------------------------------------------------------------------------
(* The keeper's keys table: enrolment of keys and their binding *)

\* The holders' requests: proposals and approvals.
KeyRequestIds == {1, 2, 3}

KeyRequest(id, role, holder, public, rid) ==
  [id |-> id, role |-> role, holder |-> holder, public |-> public, rid |-> rid]

\* A request is written to the requests table when the keeper first sees it.
WithRequest(rs, id, role) ==
  WriteRequestIfNotExist(rs, [id |-> id, state |-> RequestStateInitial,
                              role |-> role, created_at |-> 1]).requests

\* A keygen output of the signer group enrolls a signer key.
DeliverKeygenOutput ==
  \E public \in KeeperKeyPublics :
    LET r == processKeyAdd(keeper_keys,
               KeyRequest(0, RequestRoleSigner, NoHolder, public, 0))
    IN /\ keeper_keys' = r.keys
       /\ lastRequest' = [action |-> "KeygenOutput", result |-> r.result,
                          sig |-> NoSignature]
       /\ UNCHANGED <<storeVars, signerVars, obsVars, spendVars, wireVars, queueVars, lateVars, utxos, transactions,
                      height, bond, networkVars, signer_ops, signer_read>>

\* ObserverAddKey enrolls an observer key.
DeliverObserverAddKey ==
  \E public \in KeeperKeyPublics :
    LET r == processKeyAdd(keeper_keys,
               KeyRequest(0, RequestRoleObserver, NoHolder, public, 0))
    IN /\ keeper_keys' = r.keys
       /\ lastRequest' = [action |-> "ObserverAddKey", result |-> r.result,
                          sig |-> NoSignature]
       /\ UNCHANGED <<storeVars, signerVars, obsVars, spendVars, wireVars, queueVars, lateVars, utxos, transactions,
                      height, bond, networkVars, signer_ops, signer_read>>

\* SafeProposeAccount of a holder, as a new request.
DeliverProposeAccountKeys ==
  \E id \in KeyRequestIds, holder \in Holders :
    LET r == processProposeAccountKeys(
               WithRequest(requests, id, RequestRoleHolder), safe_proposals,
               keeper_keys, KeyRequest(id, RequestRoleHolder, holder, "", 0))
    IN /\ requests[id] = NoRow
       /\ requests' = r.requests
       /\ safe_proposals' = r.safe_proposals
       /\ keeper_keys' = r.keys
       /\ lastRequest' = [action |-> "SafeProposeAccount", result |-> r.result,
                          sig |-> NoSignature]
       /\ UNCHANGED <<safes, lastOp, signerVars, obsVars, spendVars, wireVars, queueVars, lateVars, utxos, transactions,
                      height, bond, networkVars, signer_ops, signer_read>>

\* SafeApproveAccount of a proposal, as a new request.
DeliverApproveAccountKeys ==
  \E id \in KeyRequestIds, rid \in KeyRequestIds, holder \in Holders :
    LET r == processApproveAccountKeys(
               WithRequest(requests, id, RequestRoleHolder), safes,
               safe_proposals, KeyRequest(id, RequestRoleHolder, holder, "", rid))
    IN /\ requests[id] = NoRow
       /\ requests' = r.requests
       /\ safes' = r.safes
       /\ lastRequest' = [action |-> "SafeApproveAccount", result |-> r.result,
                          sig |-> NoSignature]
       /\ UNCHANGED <<safe_proposals, lastOp, signerVars, obsVars, spendVars, wireVars, queueVars, lateVars, utxos,
                      transactions, height, bond, networkVars, keysVars>>

----------------------------------------------------------------------------
(* The store driven call by call *)

StoreEmpty ==
  /\ requests = [i \in RequestIds |-> NoRow]
  /\ safe_proposals = [i \in RequestIds |-> NoRow]
  /\ safes = [h \in Holders |-> NoRow]
  /\ lastOp = [op |-> "none", id |-> 0, ret |-> "nil"]

CallWriteRequestIfNotExist ==
  \E id \in RequestIds, st \in {0, RequestStateInitial},
     role \in {0, RequestRoleHolder}, t \in 1..MaxTime :
    LET r == WriteRequestIfNotExist(requests,
               [id |-> id, state |-> st, role |-> role, created_at |-> t])
    IN /\ requests' = r.requests
       /\ lastOp' = [op |-> "WriteRequestIfNotExist", id |-> id, ret |-> r.ret]
       /\ UNCHANGED <<safe_proposals, safes, notStore>>

CallFinishRequest ==
  \E id \in RequestIds :
    LET r == FinishRequest(requests, id)
    IN /\ requests' = r.requests
       /\ lastOp' = [op |-> "FinishRequest", id |-> id, ret |-> r.ret]
       /\ UNCHANGED <<safe_proposals, safes, notStore>>

CallReadPendingRequest ==
  LET found == ReadPendingRequest(requests)
  IN /\ \/ /\ found = {}
           /\ lastOp' = [op |-> "ReadPendingRequest", id |-> 0, ret |-> "nil"]
        \/ \E id \in found :
             lastOp' = [op |-> "ReadPendingRequest", id |-> id, ret |-> "nil"]
     /\ UNCHANGED <<requests, safe_proposals, safes, notStore>>

CallWriteSafeProposalWithRequest ==
  \E id \in RequestIds, h \in StoreHolders :
    LET r == WriteSafeProposalWithRequest(requests, safe_proposals,
               [state |-> RequestStateDone, request_id |-> id, holder |-> h])
    IN /\ requests' = r.requests
       /\ safe_proposals' = r.safe_proposals
       /\ lastOp' = [op |-> "WriteSafeProposalWithRequest", id |-> id, ret |-> r.ret]
       /\ UNCHANGED <<safes, notStore>>

CallWriteSafeWithRequest ==
  \E id \in RequestIds, h \in StoreHolders :
    LET r == WriteSafeWithRequest(requests, safes,
               [state |-> RequestStateDone, request_id |-> id, holder |-> h])
    IN /\ requests' = r.requests
       /\ safes' = r.safes
       /\ lastOp' = [op |-> "WriteSafeWithRequest", id |-> id, ret |-> r.ret]
       /\ UNCHANGED <<safe_proposals, notStore>>

\* The components the later specifications drive, before they act.
SpendIdle ==
  /\ bitcoin_outputs = {}
  /\ approvals = <<>>
  /\ spend = <<>>
  /\ chain_txs = {}
  /\ lastBroadcast = ""

WireIdle == wire = ""

QueueIdle ==
  /\ node_operations = {}
  /\ node_mutex = ""
  /\ started = <<>>
  /\ queue_pc = <<>>

ReplayIdle == replay = ""

ReceiveIdle == recv = "" /\ chans = <<>> /\ handlers = <<>>

PendingIdle == pending = "" /\ sent_results = <<>>

SnapshotIdle == snap = "" /\ checkpoint = "" /\ handled = {} /\ ledger = <<>>

LateIdle == ReplayIdle /\ ReceiveIdle /\ PendingIdle /\ SnapshotIdle

LaterIdle == SpendIdle /\ WireIdle /\ QueueIdle /\ LateIdle

StoreNext ==
  \/ CallWriteRequestIfNotExist
  \/ CallFinishRequest
  \/ CallReadPendingRequest
  \/ CallWriteSafeProposalWithRequest
  \/ CallWriteSafeWithRequest

StoreInit == StoreEmpty /\ SignerEmpty /\ ObserverIdle /\ KeeperIdle /\ NetworkIdle /\ KeysIdle /\ LaterIdle

SpecStore == StoreInit /\ [][StoreNext]_vars

SignerNext ==
  \/ DeliverOutput
  \/ RedeliverOutput
  \/ ProcessOutputSecondRun
  \/ ProcessOutputMarkPending
  \/ LoopInitialSessions
  \/ StartKeygen
  \/ StartSign
  \/ LoopPendingSessions
  \/ RestartNode

SignerInit ==
  /\ SignerEmpty
  /\ node_operations = {}
  /\ started = [id \in SessionIds |-> NotStarted]
  /\ replay = ReplayIdleRow
  /\ node_mutex = ""
  /\ queue_pc = <<>>
  /\ StoreEmpty /\ ObserverIdle /\ KeeperIdle /\ NetworkIdle /\ KeysIdle
  /\ SpendIdle /\ WireIdle /\ ReceiveIdle /\ PendingIdle /\ SnapshotIdle

SpecSigner == SignerInit /\ [][SignerNext]_vars

ObserverInit ==
  /\ obsTx \in ApprovedTransactions
  /\ obsResult = ""
  /\ StoreEmpty
  /\ SignerEmpty
  /\ KeeperIdle
  /\ NetworkIdle
  /\ KeysIdle /\ LaterIdle

ObserverNext ==
  \/ CombineBitcoin
  \/ VerifyEthereum

SpecObserver == ObserverInit /\ [][ObserverNext]_vars


KeeperNext ==
  \/ DeliverSafeProposeAccount
  \/ DeliverSafeApproveAccount
  \/ DeliverObserverUpdateNetworkStatus
  \/ DeliverObserverHolderDeposit
  \/ DeliverSafeProposeTransaction
  \/ DeliverSafeApproveTransaction
  \/ DeliverSafeRevokeTransaction
  \/ DeliverSignerSignatureResponse
  \/ DeliverSafeCloseAccount
  \/ RedeliverRequest

KeeperInit ==
  /\ requests = [i \in RequestIds |-> NoRow]
  /\ safe_proposals = [p \in ProposalIds |-> NoRow]
  /\ safes = [h \in Holders |-> NoRow]
  /\ lastOp = [op |-> "none", id |-> 0, ret |-> "nil"]
  /\ KeeperIdle
  /\ SignerEmpty
  /\ ObserverIdle
  /\ NetworkIdle
  /\ KeysIdle /\ LaterIdle

SpecKeeper == KeeperInit /\ [][KeeperNext]_vars

NetworkNext ==
  \/ DeliverNetworkStatus
  \/ DeliverOperationParams
  \/ DeliverAccountPlan

NetworkInit ==
  /\ network_infos = NoNetworkInfo
  /\ operation_params = NoOperationParams
  /\ keeperBuild \in {"part_003", "network.go"}
  /\ StoreEmpty
  /\ SignerEmpty
  /\ ObserverIdle
  /\ utxos = [u \in UtxoIds |-> NoRow]
  /\ transactions = [t \in TxIds |-> NoRow]
  /\ height = 0
  /\ bond = [minted |-> 0, held |-> 0, burned |-> 0]
  /\ lastRequest = [action |-> "", result |-> "", sig |-> NoSignature]
  /\ KeysIdle /\ LaterIdle

SpecNetwork == NetworkInit /\ [][NetworkNext]_vars

KeygenNext ==
  \/ DeliverRequestSignerKeys
  \/ SignerReceiveOperation
  \/ SignerReplayOperation

KeygenInit ==
  /\ StoreEmpty
  /\ sessions = [id \in KeygenSessionIds |-> NoRow]
  /\ session_signers = [id \in SessionIds |-> [m \in MemberSet |-> Absent]]
  /\ keys = {StoredKey}
  /\ cur = NoOutput
  /\ hist = <<>>
  /\ ObserverIdle
  /\ KeeperIdle
  /\ NetworkIdle
  /\ KeysIdle
  /\ SpendIdle /\ WireIdle /\ QueueIdle /\ ReceiveIdle /\ PendingIdle /\ SnapshotIdle
  /\ replay = ReplayIdleRow

SpecKeygen == KeygenInit /\ [][KeygenNext]_vars

KeysNext ==
  \/ DeliverKeygenOutput
  \/ DeliverObserverAddKey
  \/ DeliverProposeAccountKeys
  \/ DeliverApproveAccountKeys

KeysInit ==
  /\ requests = [i \in KeyRequestIds |-> NoRow]
  /\ safe_proposals = [i \in KeyRequestIds |-> NoRow]
  /\ safes = [h \in Holders |-> NoRow]
  /\ lastOp = [op |-> "none", id |-> 0, ret |-> "nil"]
  /\ SignerEmpty
  /\ ObserverIdle
  /\ KeeperIdle
  /\ NetworkIdle
  /\ KeysIdle /\ LaterIdle

SpecKeys == KeysInit /\ [][KeysNext]_vars

----------------------------------------------------------------------------
(* Properties of the request store, under SpecStore *)

\* C2: WriteRequestIfNotExist called with a request whose Id is already
\* stored leaves the requests table, the stored row's state included,
\* unchanged, and returns nil (a request with an unset State or Role, which
\* the function refuses by panicking before it reads the table, returns
\* nothing and changes nothing either).
C2_DuplicateWriteIsNoOp ==
  [][(lastOp'.op = "WriteRequestIfNotExist" /\ requests[lastOp'.id] # NoRow)
       => /\ requests' = requests
          /\ lastOp'.ret \in {"nil", "panic"}
          /\ UNCHANGED <<safe_proposals, safes>>]_vars

\* The duplicate arrived for a request that FinishRequest had already moved
\* to Done (the calls of the model pass State Initial only).
C2_Witness ==
  /\ lastOp.op = "WriteRequestIfNotExist"
  /\ lastOp.ret = "nil"
  /\ requests[lastOp.id].state = RequestStateDone

\* C3: a request that has left Initial keeps its state under every later
\* store call (a second FinishRequest, a re-delivered WriteRequestIfNotExist,
\* WriteSafeProposalWithRequest, WriteSafeWithRequest), so a request leaves
\* Initial at most once, and ReadPendingRequest returns only requests whose
\* state is Initial.
C3_DoneIsFinal ==
  [][/\ \A i \in RequestIds :
          (requests[i] # NoRow /\ requests[i].state # RequestStateInitial)
            => requests'[i] = requests[i]
     /\ (lastOp'.op = "ReadPendingRequest" /\ lastOp'.id # 0)
          => requests'[lastOp'.id].state = RequestStateInitial]_vars

\* A second FinishRequest on a Done request: it fails and the row stays Done.
C3_Witness ==
  /\ lastOp.op = "FinishRequest"
  /\ lastOp.ret = "error"
  /\ requests[lastOp.id].state = RequestStateDone

----------------------------------------------------------------------------
(* Properties of ProcessOutput of both workers, under SpecWorkers *)

\* The process is the signer worker when it holds the signer node's table of
\* started operations, and the keeper worker otherwise.
SignerWorker == DOMAIN started # {}

WorkersInit == SignerInit \/ KeeperInit

WorkersNext ==
  \/ SignerWorker /\ DeliverOutput
  \/ SignerWorker /\ RedeliverOutput
  \/ SignerWorker /\ ProcessOutputSecondRun
  \/ SignerWorker /\ ProcessOutputMarkPending
  \/ SignerWorker /\ LoopInitialSessions
  \/ SignerWorker /\ StartKeygen
  \/ SignerWorker /\ StartSign
  \/ SignerWorker /\ LoopPendingSessions
  \/ SignerWorker /\ RestartNode
  \/ ~SignerWorker /\ DeliverSafeProposeAccount
  \/ ~SignerWorker /\ DeliverSafeApproveAccount
  \/ ~SignerWorker /\ DeliverObserverUpdateNetworkStatus
  \/ ~SignerWorker /\ DeliverObserverHolderDeposit
  \/ ~SignerWorker /\ DeliverSafeProposeTransaction
  \/ ~SignerWorker /\ DeliverSafeApproveTransaction
  \/ ~SignerWorker /\ DeliverSafeRevokeTransaction
  \/ ~SignerWorker /\ DeliverSignerSignatureResponse
  \/ ~SignerWorker /\ DeliverSafeCloseAccount
  \/ ~SignerWorker /\ RedeliverRequest

SpecWorkers == WorkersInit /\ [][WorkersNext]_vars

Returned(i) == hist[i].fault = ""

\* The keeper worker: a redelivery of the request at the head of the queue
\* returns the transactions and the indicator its first delivery returned.
KeeperRedeliveryReturnsTheSame ==
  (~SignerWorker /\ lastRequest.action # "" /\ KeeperRunning) =>
    LET again == KeeperReturns(keeperState, [stored |-> TRUE, action |-> lastRequest.action])
    IN /\ again = lastRequest.ret
       /\ again.asset = ""

----------------------------------------------------------------------------
(* Properties of the observer's signature checks, under SpecObserver *)

\* C7: a recovery transaction is finished (treated as fully signed) only if
\* it carries the Observer's signature together with the Holder's or the
\* Signer's, on Bitcoin-family and Ethereum-family chains alike.
C7_ObserverMandatory ==
  (obsResult = "finished" /\ obsTx.recovery)
    => /\ Opk \in SignedBy(obsTx)
       /\ Holder \in SignedBy(obsTx) \/ Spk \in SignedBy(obsTx)

----------------------------------------------------------------------------
(* Properties of the keeper, under SpecKeeper *)

\* The transactions that hold output u: it is one of their inputs and they
\* are proposed (Initial), approved (Pending) or finished (Done).
Holding(u) ==
  {t \in TxIds : /\ transactions[t] # NoRow
                 /\ u \in transactions[t].inputs
                 /\ transactions[t].state # RequestStateFailed}

\* C4: every output of the safe is an input of at most one transaction that
\* is Pending or Done (and of at most one that is proposed, Pending or Done);
\* a proposal that is accepted assigns each of its inputs, every one of them
\* unassigned before, to the new transaction and touches no other output,
\* and a proposal that fails assigns nothing.
C4_InputsAssignedOnce ==
  /\ [](\A u \in UtxoIds :
          /\ Cardinality({t \in Holding(u) :
                            transactions[t].state \in {RequestStatePending,
                                                       RequestStateDone}}) <= 1
          /\ Cardinality(Holding(u)) <= 1)
  /\ [][/\ \A t \in TxIds :
             (transactions[t] = NoRow /\ transactions'[t] # NoRow) =>
               \A u \in UtxoIds :
                 IF u \in transactions'[t].inputs
                 THEN /\ utxos[u] # NoRow
                      /\ utxos[u].state = RequestStateInitial
                      /\ utxos'[u].state # RequestStateInitial
                      /\ utxos'[u].spent_by = t
                 ELSE utxos'[u] = utxos[u]
        /\ (lastRequest'.action = "SafeProposeTransaction"
            /\ lastRequest'.result = "failed")
             => UNCHANGED <<utxos, transactions>>]_vars

C4_Witness ==
  \E t1, t2 \in TxIds :
    /\ t1 # t2
    /\ transactions[t1] # NoRow /\ transactions[t2] # NoRow
    /\ transactions[t1].state = RequestStatePending
    /\ transactions[t2].state = RequestStateInitial
    /\ transactions[t1].inputs \cap transactions[t2].inputs = {}
    /\ Holding(1) # Holding(2)

\* C5: a transaction is Done only if every signature request created for
\* its inputs is Done; while one of them is not Done the transaction is
\* Pending; the requests of a transaction are one for each of its inputs.
C5_DoneOnlyWhenAllSigned ==
  \A t \in TxIds :
    transactions[t] # NoRow =>
      LET tx == transactions[t]
          created == {u \in tx.inputs : tx.sigs[u] # 0}
      IN /\ tx.state = RequestStateDone =>
              \A u \in created : tx.sigs[u] = RequestStateDone
         /\ (\E u \in created : tx.sigs[u] # RequestStateDone) =>
              tx.state = RequestStatePending
         /\ created # {} => created = tx.inputs

C5_Witness ==
  \E t \in TxIds :
    /\ transactions[t] # NoRow
    /\ transactions[t].state = RequestStateDone
    /\ transactions[t].inputs = UtxoIds
    /\ \A u \in UtxoIds : transactions[t].sigs[u] = RequestStateDone

\* C6: a close request is accepted only if it spends outputs of the safe and
\* the latest network height minus the deposit height of each of them is at
\* least the timelock of the safe; a close request that fails leaves the
\* safe, its outputs and its transactions as they were.
C6_CloseOnlyAfterTimelock ==
  [][lastRequest'.action = "SafeCloseAccount" =>
       LET recovered == UNION {transactions'[t].inputs :
                                 t \in {x \in TxIds : transactions'[x] # transactions[x]}}
       IN /\ lastRequest'.result = "done" =>
               /\ recovered # {}
               /\ \A h \in StoreHolders, u \in recovered :
                    height - utxos[u].height >= safes[h].timelock
          /\ lastRequest'.result = "failed" =>
               UNCHANGED <<safes, utxos, transactions>>]_vars

C6_Witness ==
  /\ lastRequest.action = "SafeCloseAccount"
  /\ lastRequest.result = "done"
  /\ \E h \in StoreHolders, u \in UtxoIds, d \in UtxoIds :
       /\ utxos[u] # NoRow /\ utxos[d] # NoRow
       /\ utxos[u].state = RequestStatePending
       /\ height - utxos[u].height = safes[h].timelock
       /\ utxos[d].state = RequestStateInitial
       /\ height - utxos[d].height < safes[h].timelock

\* C8: a Safe is created only by a SafeApproveAccount that succeeds, for a
\* proposal stored before it with the holder, signer, observer and address
\* of the Safe, and carrying the holder's signature over
\* APPROVE:<proposal id>:<address>; every Safe has such a proposal.
C8_SafeOnlyFromApprovedProposal ==
  [][\A h \in StoreHolders :
       /\ (safes[h] = NoRow /\ safes'[h] # NoRow) =>
            /\ lastRequest'.action = "SafeApproveAccount"
            /\ lastRequest'.result = "done"
            /\ \E p \in ProposalIds :
                 /\ safe_proposals[p] # NoRow
                 /\ safe_proposals[p].holder = h
                 /\ safes'[h].holder = h
                 /\ safes'[h].signer = safe_proposals[p].signer
                 /\ safes'[h].observer = safe_proposals[p].observer
                 /\ safes'[h].address = safe_proposals[p].address
                 /\ lastRequest'.sig =
                      [key |-> h, msg |-> <<"APPROVE", p, safe_proposals[p].address>>]
       /\ safes'[h] # NoRow =>
            \E p \in ProposalIds :
              /\ safe_proposals'[p] # NoRow
              /\ safe_proposals'[p].holder = safes'[h].holder
              /\ safe_proposals'[p].signer = safes'[h].signer
              /\ safe_proposals'[p].observer = safes'[h].observer
              /\ safe_proposals'[p].address = safes'[h].address]_vars

C8_Witness ==
  /\ lastRequest.action = "SafeApproveAccount"
  /\ lastRequest.result = "done"
  /\ \E h \in StoreHolders : safes[h] # NoRow /\ lastRequest.sig.key = h

\* C9: once a Safe exists no field of it but State changes; State changes
\* only from Done to Failed, and only in the step of a SafeCloseAccount that
\* succeeds.
C9_SafeImmutableButState ==
  [][\A h \in StoreHolders :
       safes[h] # NoRow =>
         /\ safes'[h] # NoRow
         /\ [safes'[h] EXCEPT !.state = 0] = [safes[h] EXCEPT !.state = 0]
         /\ safes'[h].state # safes[h].state =>
              /\ safes[h].state = RequestStateDone
              /\ safes'[h].state = RequestStateFailed
              /\ lastRequest'.action = "SafeCloseAccount"
              /\ lastRequest'.result = "done"]_vars

C9_Witness ==
  /\ \E h \in StoreHolders : safes[h].state = RequestStateFailed
  /\ lastRequest.action = "SignerSignatureResponse"
  /\ lastRequest.result = "done"

Deposited == SumAmounts(utxos, {u \in UtxoIds : utxos[u] # NoRow})

Spent ==
  SumTransactions(transactions,
                  {t \in TxIds : /\ transactions[t] # NoRow
                                 /\ transactions[t].state = RequestStateDone})

\* C10: while the safe is open (no close request has been accepted), the
\* bond minted less the bond burned is the sum of the deposits recorded for
\* the safe less the sum of the amounts of its finished transactions.
C10_BondMirrorsLockedAmount ==
  \A h \in StoreHolders :
    safes[h].state # RequestStateFailed =>
      bond.minted - bond.burned = Deposited - Spent

C10_Witness ==
  /\ \A h \in StoreHolders : safes[h].state = RequestStateDone
  /\ bond.minted = 3
  /\ bond.burned = 1
  /\ \E t \in TxIds : transactions[t] # NoRow /\ transactions[t].state = RequestStateFailed

\* C11: a deposit (txHash, vout) is recorded at most once.  Writing an
\* Initial output whose (txHash, vout) already has a row leaves the table as
\* it is; a recorded output keeps its amount and its deposit height; the
\* bond minted grows in a step exactly by the amounts of the outputs first
\* recorded in that step, so a second ObserverHolderDeposit of a recorded
\* output, and a re-delivery of the same request, mint nothing.
C11_DepositRecordedOnce ==
  /\ [](\A u \in UtxoIds, a \in UtxoIds, h \in Heights :
          utxos[u] # NoRow =>
            WriteBitcoinUTXOIfNotExists(utxos, u,
              [state |-> RequestStateInitial, amount |-> a, height |-> h,
               spent_by |-> 0]).outs = utxos)
  /\ [][LET recorded == {u \in UtxoIds : utxos[u] = NoRow /\ utxos'[u] # NoRow}
        IN /\ \A u \in UtxoIds :
                utxos[u] # NoRow =>
                  /\ utxos'[u] # NoRow
                  /\ utxos'[u].amount = utxos[u].amount
                  /\ utxos'[u].height = utxos[u].height
           /\ bond'.minted = bond.minted + SumAmounts(utxos', recorded)
           /\ (lastRequest'.action = "ObserverHolderDeposit" /\ recorded = {})
                => UNCHANGED <<utxos, bond>>]_vars

\* A second deposit request for a recorded output has been delivered, at a
\* later height than the one recorded, and has failed.
C11_Witness ==
  /\ lastRequest.action = "ObserverHolderDeposit"
  /\ lastRequest.result = "failed"
  /\ \A h \in StoreHolders : safes[h] # NoRow /\ safes[h].state = RequestStateDone
  /\ \E u \in UtxoIds : utxos[u] # NoRow /\ utxos[u].height < height
  /\ bond.minted = Deposited
  /\ bond.minted > 0

\* The revoke request of transaction t, signed by key.
RevokeRequest(h, t, key) ==
  [stored |-> FALSE, action |-> "SafeRevokeTransaction",
   role |-> RequestRoleObserver, holder |-> h, tx |-> t,
   sig |-> [key |-> key, msg |-> RevokeMessage(t, t)]]

\* Transaction t is Failed, has no open signature request, and every output
\* that was one of its inputs is Initial and assigned to no transaction.
Revoked(k, t) ==
  /\ k.txs[t].state = RequestStateFailed
  /\ \A u \in k.txs[t].inputs :
       /\ k.txs[t].sigs[u] \notin {RequestStateInitial, RequestStatePending}
       /\ k.utxos[u].state = RequestStateInitial
       /\ k.utxos[u].spent_by = 0

\* C12: a SafeRevokeTransaction signed by the holder or by the observer over
\* REVOKE:<request id>:<transaction hash> of a transaction in state Initial
\* succeeds and leaves the transaction Failed, with no open signature
\* request, and every output that was assigned to it Initial again; and a
\* step in which a revoke request succeeds does exactly that to a
\* transaction that was Initial.
C12_RevokeReleasesInputs ==
  /\ [](\A h \in StoreHolders, t \in TxIds : \A key \in {h, Opk} :
          (transactions[t] # NoRow /\ transactions[t].state = RequestStateInitial /\ KeeperRunning) =>
            LET k == KeeperProcessOutput(keeperState, RevokeRequest(h, t, key))
            IN k.last.result = "done" /\ Revoked(k, t))
  /\ [][(lastRequest'.action = "SafeRevokeTransaction" /\ lastRequest'.result = "done")
          => \E t \in TxIds :
               /\ transactions[t] # NoRow
               /\ transactions[t].state = RequestStateInitial
               /\ Revoked([txs |-> transactions', utxos |-> utxos'], t)
               /\ \A x \in TxIds \ {t} : transactions'[x] = transactions[x]]_vars

\* A proposed transaction with two inputs has been revoked, and both outputs
\* are available again.
C12_Witness ==
  /\ lastRequest.action = "SafeRevokeTransaction"
  /\ lastRequest.result = "done"
  /\ \E t \in TxIds :
       /\ transactions[t] # NoRow
       /\ transactions[t].state = RequestStateFailed
       /\ transactions[t].inputs = UtxoIds
  /\ \A u \in UtxoIds : utxos[u].state = RequestStateInitial

----------------------------------------------------------------------------
(* Properties of the keeper's network requests, under SpecNetwork *)

\* C13: for each chain, the latest stored NetworkInfo is never removed and
\* its height never decreases, whatever ObserverUpdateNetworkStatus,
\* ObserverSetOperationParams and ObserverSetAccountPlan requests are
\* delivered.
C13_HeightNeverDecreases ==
  [][\A c \in NetworkChains :
       network_infos[c] # NoRow =>
         /\ network_infos'[c] # NoRow
         /\ network_infos'[c].height >= network_infos[c].height]_vars

\* Both chains have an info above height 0, and the last push, which did not
\* replace the info of its chain, has been rejected.
C13_Witness ==
  /\ \A c \in NetworkChains :
       network_infos[c] # NoRow /\ network_infos[c].height > 0
  /\ network_infos[SafeChainBitcoin].request_id = 2
  /\ lastRequest.action = "ObserverUpdateNetworkStatus"
  /\ lastRequest.result \in {"failed", "finished"}

\* C14: a pushed NetworkInfo is stored only if its height is strictly
\* greater than the last stored height of the chain, or its hash and its
\* height equal the last stored hash and height.
C14_StoredOnlyHigherOrSameBlock ==
  [][\A c \in NetworkChains :
       (network_infos[c] # NoRow /\ network_infos'[c] # network_infos[c]) =>
         \/ network_infos'[c].height > network_infos[c].height
         \/ /\ network_infos'[c].hash = network_infos[c].hash
            /\ network_infos'[c].height = network_infos[c].height]_vars

\* C15: a Bitcoin-family push that passes every other check is stored
\* exactly when its fee rate is from 1 to 1000.
C15_FeeRateBounds ==
  \A fee \in 0..1001, h \in Heights :
    LET old == network_infos[SafeChainBitcoin]
        req == [id |-> 3, role |-> RequestRoleObserver, short |-> FALSE,
                curve |-> CurveSecp256k1ECDSABitcoin, chain |-> SafeChainBitcoin,
                fee |-> fee, height |-> h, hash |-> 3]
        block == [known |-> TRUE, height |-> h, confirmations |-> 1]
    IN (old = NoRow \/ old.height <= h) =>
         ((handleNetworkStatus(network_infos, req, block).result = "done")
            <=> (1 <= fee /\ fee <= 1000))

\* C16: every push that violates an acceptance rule ends with the request
\* failed and nothing stored, and never stops the keeper.
C16_ViolationsFailTheRequest ==
  \A req \in NetworkStatusRequests : \A block \in Blocks(req) :
    LET old == network_infos[req.chain]
        same == old # NoRow /\ old.hash = req.hash
        violates ==
          \/ HashBytes(req.hash) # 32
          \/ ~same /\ ~block.known
          \/ ~same /\ block.known /\ block.height # req.height
          \/ ~same /\ block.known /\ block.confirmations = -1
          \/ same /\ old.height # req.height
          \/ old # NoRow /\ old.height > req.height
          \/ req.chain = SafeChainBitcoin /\ (req.fee < 1 \/ req.fee > 1000)
        r == handleNetworkStatus(network_infos, req, block)
    IN (~req.short /\ req.chain = SafeCurveChain(req.curve) /\ violates) =>
         (r.result = "failed" /\ r.infos = network_infos)

\* C17: an observer request whose chain does not belong to its curve fails
\* as a request: nothing is stored and the keeper goes on.
C17_InvalidCurveFails ==
  /\ \A req \in NetworkStatusRequests : \A block \in Blocks(req) :
       LET r == handleNetworkStatus(network_infos, req, block)
       IN (~req.short /\ req.chain # SafeCurveChain(req.curve)) =>
            (r.result = "failed" /\ r.infos = network_infos)
  /\ \A curve \in NetworkCurves, chain \in NetworkChains :
       LET r == handleOperationParams(operation_params,
                  [id |-> 1, role |-> RequestRoleObserver, sized |-> TRUE,
                   curve |-> curve, chain |-> chain])
       IN chain # SafeCurveChain(curve) =>
            (r.result = "failed" /\ r.params = operation_params)

----------------------------------------------------------------------------
(* Properties of the keygen requests, under SpecKeygen *)

\* C18: the first delivery of a keygen request with batch count b sends
\* exactly b keygen-input operations when b is from 1 to 128 and the curve
\* is secp256k1-ECDSA-Bitcoin; it sends none when b is below 1, above 128
\* or not a number, or when the curve is another one; the request is Done.
C18_KeygenBatchEmitsExactly ==
  [][\A id \in KeygenRequestIds :
       (requests[id] = NoRow /\ requests'[id] # NoRow) =>
         LET row == requests'[id]
             b == HexValue(row.extra)
             sends == /\ Len(row.extra) > 0
                      /\ 1 <= b /\ b <= 128
                      /\ row.curve = CurveSecp256k1ECDSABitcoin
             sent == SubSeq(signer_ops', Len(signer_ops) + 1, Len(signer_ops'))
         IN /\ SubSeq(signer_ops', 1, Len(signer_ops)) = signer_ops
            /\ Len(sent) = IF sends THEN b ELSE 0
            /\ \A k \in DOMAIN sent :
                 /\ sent[k].type = OperationTypeKeygenInput
                 /\ sent[k].curve = row.curve
            /\ row.state = RequestStateDone]_vars

C18_Witness ==
  /\ requests[1] # NoRow /\ requests[1].extra = <<128>>
  /\ requests[1].curve = CurveSecp256k1ECDSABitcoin
  /\ requests[2] # NoRow /\ requests[2].extra = <<129>>
  /\ requests[2].state = RequestStateDone
  /\ Len(signer_ops) = 128

\* C19: the session ids of a request are pairwise distinct and the same on
\* every delivery of the request: the operations sent so far name as many
\* ids as the stored requests' batches add up to, however often a request
\* was delivered, and the signer has one session per id it has received.
C19_KeygenSessionsDeduplicated ==
  LET batch(id) ==
        IF /\ requests[id] # NoRow
           /\ requests[id].curve = CurveSecp256k1ECDSABitcoin
           /\ Len(requests[id].extra) > 0
           /\ HexValue(requests[id].extra) \in 1..128
        THEN HexValue(requests[id].extra) ELSE 0
      total == batch(1) + batch(2)
      sentIds == {signer_ops[p].id : p \in DOMAIN signer_ops}
      readIds == {signer_ops[p].id : p \in 1..signer_read}
      sessionIds == {i \in DOMAIN sessions : sessions[i] # NoRow}
  IN /\ Cardinality(sentIds) = total
     /\ sessionIds = readIds
     /\ Cardinality(sessionIds) <= total

C19_Witness ==
  /\ Len(signer_ops) = 4
  /\ signer_read = 4
  /\ signer_ops[1].id = signer_ops[3].id
  /\ signer_ops[1].id # signer_ops[2].id
  /\ Cardinality({i \in DOMAIN sessions : sessions[i] # NoRow}) = 2

----------------------------------------------------------------------------
(* Properties of the keys table, under SpecKeys *)

\* C20: an enrolled key is spare until a proposal binds it; a proposal
\* binds exactly one spare signer key and one spare observer key; a bound
\* key stays bound to its holder and belongs to one proposal only.
C20_SpareKeysBoundOnce ==
  /\ [](\A i \in KeyRequestIds :
          safe_proposals[i] # NoRow =>
            /\ keeper_keys[safe_proposals[i].signer] # NoRow
            /\ keeper_keys[safe_proposals[i].signer].role = RequestRoleSigner
            /\ keeper_keys[safe_proposals[i].signer].holder = safe_proposals[i].holder
            /\ keeper_keys[safe_proposals[i].observer] # NoRow
            /\ keeper_keys[safe_proposals[i].observer].role = RequestRoleObserver
            /\ keeper_keys[safe_proposals[i].observer].holder = safe_proposals[i].holder
            /\ \A j \in KeyRequestIds \ {i} :
                 safe_proposals[j] # NoRow =>
                   /\ safe_proposals[j].signer # safe_proposals[i].signer
                   /\ safe_proposals[j].observer # safe_proposals[i].observer)
  /\ [][LET proposed == {i \in KeyRequestIds :
                           safe_proposals[i] = NoRow /\ safe_proposals'[i] # NoRow}
            bound == {p \in KeeperKeyPublics :
                        /\ keeper_keys[p] # NoRow /\ keeper_keys[p].holder = NoHolder
                        /\ keeper_keys'[p].holder # NoHolder}
        IN /\ \A p \in KeeperKeyPublics :
                /\ (keeper_keys[p] = NoRow /\ keeper_keys'[p] # NoRow) =>
                     keeper_keys'[p].holder = NoHolder
                /\ (keeper_keys[p] # NoRow /\ keeper_keys[p].holder # NoHolder) =>
                     keeper_keys'[p] = keeper_keys[p]
           /\ proposed = {} => bound = {}
           /\ \A i \in proposed :
                /\ bound = {safe_proposals'[i].signer, safe_proposals'[i].observer}
                /\ safe_proposals'[i].signer \in SpareKeys(keeper_keys, RequestRoleSigner)
                /\ safe_proposals'[i].observer \in SpareKeys(keeper_keys, RequestRoleObserver)
                /\ CountSpareKeys(keeper_keys', RequestRoleSigner)
                     = CountSpareKeys(keeper_keys, RequestRoleSigner) - 1
                /\ CountSpareKeys(keeper_keys', RequestRoleObserver)
                     = CountSpareKeys(keeper_keys, RequestRoleObserver) - 1]_vars

C20_Witness ==
  /\ \E i \in KeyRequestIds :
       /\ safe_proposals[i] # NoRow
       /\ safes[safe_proposals[i].holder] # NoRow
       /\ safes[safe_proposals[i].holder].signer = safe_proposals[i].signer
  /\ CountSpareKeys(keeper_keys, RequestRoleSigner) = 1
  /\ CountSpareKeys(keeper_keys, RequestRoleObserver) = 0
  /\ lastRequest.action = "SafeProposeAccount"
  /\ lastRequest.result = "failed"

\* What a run returns when the keeper-asset balance is short.
KeeperAssetShort == [txs |-> <<>>, asset |-> KeeperAssetId, fault |-> ""]

\* A run of processAction that returns the keeper transaction when the
\* balance suffices returns the shortage, and writes the same, when it is
\* short.
RunShortOfBalance ==
  \A out \in Outputs :
    LET enough == processAction(signerState, out, KeeperResponseAmount)
        short == processAction(signerState, out, KeeperResponseAmount - 1)
    IN (Deliverable(out) /\ enough.res.fault = "" /\ enough.res.txs # <<>>) =>
         /\ short.res = KeeperAssetShort
         /\ short.st = enough.st
         /\ Len(enough.res.txs) = 1
         /\ enough.res.txs[1].trace = out.op.id

\* The same for a run that goes on from MarkSessionPending.
MarkedRunShortOfBalance ==
  replay.pc = "mark" =>
    LET enough == processSignResult(signerState, replay.session, replay.sig,
                                    KeeperResponseAmount)
        short == processSignResult(signerState, replay.session, replay.sig,
                                   KeeperResponseAmount - 1)
    IN (enough.res.fault = "" /\ enough.res.txs # <<>>) =>
         /\ short.res = KeeperAssetShort
         /\ short.st = enough.st
         /\ Len(enough.res.txs) = 1
         /\ enough.res.txs[1].trace = cur.op.id

\* A delivery that follows a shortage and reports none returns the
\* transaction.
RedeliveryAfterShortage ==
  \A i, j \in 1..Len(hist) :
    (i < j /\ hist[i] = KeeperAssetShort /\ hist[j].fault = "" /\ hist[j].asset = "") =>
      /\ Len(hist[j].txs) = 1
      /\ hist[j].txs[1].trace = cur.op.id

\* C21: an output whose processing ends in the keeper transaction when the
\* keeper-asset balance suffices returns, when the balance is short, no
\* transaction and the keeper asset id; delivered again with enough
\* balance it returns the transaction it returns without the shortage.
C21_ShortageRetriedOnRedelivery ==
  /\ RunShortOfBalance
  /\ MarkedRunShortOfBalance
  /\ RedeliveryAfterShortage

\* An output delivered first with a short balance and then with enough.
C21_Witness ==
  /\ Len(hist) >= 2
  /\ hist[1] = KeeperAssetShort
  /\ hist[2].txs # <<>>
  /\ hist[2].asset = ""

----------------------------------------------------------------------------
(* C30 *)

\* C30: whenever the delivery of an output makes the signer return a keygen
\* result for the keeper (in either run of processAction), every genesis
\* member has a result row for the session, all the rows hold the same
\* public key, and that key is the session's stored public key and the key
\* the node itself reported.
C30_KeygenResultNeedsEveryMember ==
  \A out \in Outputs, balance \in 0..1 :
    LET r == processAction(signerState, out, balance)
    IN (/\ Deliverable(out)
        /\ r.res.fault = ""
        /\ r.res.txs # <<>>
        /\ r.res.txs[1].type = OperationTypeKeygenOutput) =>
         /\ r.st.sessions[out.op.id] # NoRow
         /\ \A m \in MemberSet :
              /\ r.st.session_signers[out.op.id][m] # Absent
              /\ r.st.session_signers[out.op.id][m] = r.st.sessions[out.op.id].public
              /\ r.st.session_signers[out.op.id][m] = r.st.session_signers[out.op.id][NodeId]
         /\ r.res.txs[1].public = r.st.sessions[out.op.id].public

C30_Witness ==
  /\ hist # <<>>
  /\ hist[Len(hist)].fault = ""
  /\ hist[Len(hist)].txs # <<>>
  /\ hist[Len(hist)].txs[1].type = OperationTypeKeygenOutput
  /\ \A m \in MemberSet : session_signers[cur.op.id][m] = sessions[cur.op.id].public

----------------------------------------------------------------------------
(* C23, C24 *)

\* The inputs of an approval that need the signer's signature: those whose
\* UTXO is a safe's and that holder and observer have not signed together.
NeedsSignerSignature(tx, in) ==
  /\ in.required
  /\ ~(tx.recovery /\ Len(in.hsigs) > 1)

\* C23: keeperCombineBitcoinTransactionSignatures records the transaction as
\* fully signed only if, on every input that needs the signer's signature,
\* the signer's partial signature carries the derived signer key, its bytes
\* are the keeper's Done signature of that input index, and it verifies
\* against the sighash; after any mismatch the approval is left as it was.
C23_SignerSignatureChecked ==
  /\ [][\A i \in DOMAIN obsTx.inputs :
          (/\ obsResult' = "finished"
           /\ obsTx.chain \in {SafeChainBitcoin, SafeChainLitecoin}
           /\ NeedsSignerSignature(obsTx, obsTx.inputs[i])) =>
             /\ obsTx.inputs[i].ssig.pub = Spk
             /\ obsTx.inputs[i].ssig.sig = obsTx.inputs[i].signed
             /\ VerifySignatureDER(Spk, obsTx.inputs[i].ssig.sig)]_vars
  /\ [][(/\ obsTx.chain \in {SafeChainBitcoin, SafeChainLitecoin}
         /\ \E i \in DOMAIN obsTx.inputs :
              /\ NeedsSignerSignature(obsTx, obsTx.inputs[i])
              /\ \/ obsTx.inputs[i].ssig.pub # Spk
                 \/ obsTx.inputs[i].ssig.sig # obsTx.inputs[i].signed
                 \/ ~VerifySignatureDER(Spk, obsTx.inputs[i].ssig.sig)) =>
          obsTx' = obsTx /\ obsResult' # "finished"]_vars

C23_Witness ==
  /\ obsResult = "finished"
  /\ obsTx.chain = SafeChainBitcoin
  /\ obsTx.state = RequestStateDone
  /\ \E i \in DOMAIN obsTx.inputs :
       /\ obsTx.inputs[i].required
       /\ obsTx.inputs[i].ssig = [pub |-> Spk, sig |-> SignatureBy(Spk)]
       /\ obsTx.inputs[i].signed = SignatureBy(Spk)
       /\ obsTx.inputs[i].hsigs = <<Holder, Spk>>

\* C24: when keeperCombineBitcoinTransactionSignatures records a transaction
\* as fully signed, the holder's partial signature on every safe input
\* verifies against the input's sighash and the holder's public key.
C24_HolderSignatureVerified ==
  (/\ obsResult = "finished"
   /\ obsTx.chain \in {SafeChainBitcoin, SafeChainLitecoin}) =>
     \A i \in DOMAIN obsTx.inputs :
       (obsTx.inputs[i].required /\ obsTx.inputs[i].hsigs[1] = Holder) =>
         VerifySignatureDER(Holder, obsTx.inputs[i].hsig)

----------------------------------------------------------------------------
(* observer: the accountant's fee inputs, the spend loop and broadcasting *)

\* bitcoin.ValueDust(chain).
ValueDust == 1000

\* Transaction hashes: of an accountant deposit, of an approved transaction,
\* of a fee splitter (its inputs and output values make the transaction), of
\* a signed transaction with its fee input attached, and the id the chain's
\* node gives a raw transaction that does not hash to the expected hash.
NullHash == [null |-> TRUE]
DepositHash(n) == [deposit |-> n]
ApprovalHash(t) == [approval |-> t]
SplitterHash(ins, values) == [splitter |-> ins, values |-> values]
SpendHash(t, feeInput) == [spend |-> t, fee_hash |-> feeInput.hash, fee_index |-> feeInput.index]
OtherHash(hash) == [other |-> hash]

NoOutputRow == [hash |-> NullHash, index |-> 0, satoshi |-> 0, raw |-> FALSE]
NoSplitter == [ins |-> <<>>, values |-> <<>>]

\* What bitcoin.RPCSendRawTransaction answers: the id of the accepted
\* transaction and the error.
AlreadyInBlockChain == "Transaction already in block chain"
RPCDown == "connection refused"

RPCAnswers(chain, hash) ==
  IF hash \in chain
  THEN {[id |-> NullHash, err |-> AlreadyInBlockChain], [id |-> NullHash, err |-> RPCDown]}
  ELSE {[id |-> hash, err |-> ""], [id |-> OtherHash(hash), err |-> ""],
        [id |-> NullHash, err |-> RPCDown]}

\* The chain after the node answered: it holds the transaction it accepted
\* (what it accepted under another id is not followed any further).
RPCSendRawTransaction(chain, hash, answer) ==
  IF answer.err = "" /\ answer.id = hash THEN chain \cup {hash} ELSE chain

\* bitcoinBroadcastTransaction(hash, raw) of the accountant flow.
bitcoinBroadcastTransactionLegacy(hash, answer) ==
  IF answer.err # "" THEN answer.err
  ELSE IF answer.id # hash THEN "malformed bitcoin transaction"
  ELSE "nil"

\* bitcoinBroadcastTransaction(hash, raw, chain): "nil" or the error.
bitcoinBroadcastTransaction(hash, answer) ==
  IF answer.err # "" /\ answer.err = AlreadyInBlockChain THEN "nil"
  ELSE IF answer.err # "" THEN answer.err
  ELSE IF answer.id # hash THEN "malformed bitcoin transaction"
  ELSE "nil"

\* A lower end of the range at half the fee.
FeeRangeMinHalf(fee) == fee \div 2

\* uint64(float64(fee)*0.9) and uint64(float64(fee)*1.1).
FeeRangeMin(fee) == (fee * 9) \div 10
FeeRangeMax(fee) == (fee * 11) \div 10

\* The rows the SELECT of AssignBitcoinUTXOByRangeForTransaction matches; it
\* has LIMIT 1 and no ORDER BY, so any of them may be the row it returns.
AssignCandidates(outs, min, max, t) ==
  {o \in outs : \/ (o.satoshi >= min /\ o.satoshi <= max /\ o.state = RequestStateInitial)
                \/ o.spent_by = ApprovalHash(t)}

\* execOne of the UPDATE ... WHERE state=Initial AND spent_by IS NULL that
\* skips the WHERE clause.
MarkSpentUnguarded(outs, hash, index, by) ==
  [outs |-> {IF o.hash = hash /\ o.index = index
             THEN [o EXCEPT !.state = RequestStateDone, !.spent_by = by] ELSE o : o \in outs},
   err |-> FALSE]

\* execOne of UPDATE bitcoin_outputs SET state=Done, spent_by=? WHERE
\* transaction_hash=? AND output_index=? AND state=Initial AND spent_by IS
\* NULL: an error unless exactly one row is updated.
MarkSpent(outs, hash, index, by) ==
  IF \E o \in outs : /\ o.hash = hash /\ o.index = index
                     /\ o.state = RequestStateInitial /\ o.spent_by = NullHash
  THEN [outs |-> {IF o.hash = hash /\ o.index = index
                  THEN [o EXCEPT !.state = RequestStateDone, !.spent_by = by] ELSE o : o \in outs},
        err |-> FALSE]
  ELSE [outs |-> outs, err |-> TRUE]

\* AssignBitcoinUTXOByRangeForTransaction once the SELECT returned row o.
AssignBitcoinUTXOByRangeForTransaction(outs, o, t) ==
  IF o.spent_by = ApprovalHash(t) THEN [outs |-> outs, err |-> FALSE]
  ELSE MarkSpent(outs, o.hash, o.index, ApprovalHash(t))

\* ReadBitcoinUTXOs: the Initial rows, ORDER BY created_at.
RECURSIVE SortByCreated(_)
SortByCreated(rows) ==
  IF rows = {} THEN <<>>
  ELSE LET first == CHOOSE o \in rows : \A p \in rows : o.created <= p.created
       IN <<first>> \o SortByCreated(rows \ {first})

ReadBitcoinUTXOs(outs) == SortByCreated({o \in outs : o.state = RequestStateInitial})

RECURSIVE SumSatoshi(_)
SumSatoshi(rows) ==
  IF rows = <<>> THEN 0 ELSE rows[1].satoshi + SumSatoshi(Tail(rows))

\* The estimated virtual size of a splitter of n inputs.
EstimateSplitterSize(n) == (40 + n * 300 + 2 * 128) \div 4

\* The fee splitter bitcoinRetrieveFeeInputsForTransaction builds from the
\* accountant's outputs: inputs are added in order until they cover the fee
\* and the splitter's own network fee; NoSplitter when they never do.
BuildFeeSplitter(rows, fee, fvb) ==
  LET covers == {n \in 1..Len(rows) :
                   SumSatoshi(SubSeq(rows, 1, n)) >= EstimateSplitterSize(n) * fvb + fee}
  IN IF covers = {} THEN NoSplitter
     ELSE LET n == CHOOSE k \in covers : \A j \in covers : k <= j
              change == SumSatoshi(SubSeq(rows, 1, n)) - EstimateSplitterSize(n) * fvb - fee
          IN [ins |-> [i \in 1..n |-> [hash |-> rows[i].hash, index |-> rows[i].index]],
              values |-> IF change > ValueDust THEN <<fee, change>> ELSE <<fee>>]

\* WriteBitcoinFeeOutput: one database transaction that marks every input
\* of the splitter spent by it and inserts its outputs, the first one Done
\* and spent by the approved transaction.
RECURSIVE MarkInputsSpent(_, _, _)
MarkInputsSpent(outs, ins, by) ==
  IF ins = <<>> THEN [outs |-> outs, err |-> FALSE]
  ELSE LET r == MarkSpent(outs, ins[1].hash, ins[1].index, by)
       IN IF r.err THEN r ELSE MarkInputsSpent(r.outs, Tail(ins), by)

WriteBitcoinFeeOutput(outs, msgTx, t) ==
  LET hash == SplitterHash(msgTx.ins, msgTx.values)
      marked == MarkInputsSpent(outs, msgTx.ins, hash)
      at == Cardinality(outs)
      new == {[hash |-> hash, index |-> i - 1, satoshi |-> msgTx.values[i],
               state |-> IF i = 1 THEN RequestStateDone ELSE RequestStateInitial,
               spent_by |-> IF i = 1 THEN ApprovalHash(t) ELSE NullHash,
               raw |-> TRUE, created |-> at + i] : i \in DOMAIN msgTx.values}
  IN IF marked.err THEN [outs |-> outs, err |-> TRUE]
     ELSE IF \E o \in outs : o.hash = hash THEN [outs |-> outs, err |-> TRUE]
     ELSE [outs |-> marked.outs \cup new, err |-> FALSE]

\* A list that also holds the approvals whose signatures are still awaited.
ListUnconfirmedTransactionApprovals(apps) ==
  {t \in DOMAIN apps : apps[t].spent_hash = NullHash}

\* store.ListFullySignedTransactionApprovals: fully signed and not yet spent.
ListFullySignedTransactionApprovals(apps) ==
  {t \in DOMAIN apps : apps[t].state = RequestStateDone /\ apps[t].spent_hash = NullHash}

\* store.ConfirmFullySignedTransactionApproval.
ConfirmFullySignedTransactionApproval(apps, t, hash) ==
  [apps EXCEPT ![t].spent_hash = hash]

\* store.FinishTransactionSignatures.
FinishTransactionSignatures(apps, t) ==
  [apps EXCEPT ![t].state = RequestStateDone]

\* The spend loops that share the accountant's outputs, the approvals each
\* of them lists, oldest first, and the approval the accountant flow signs.
\* t3 needs a fee the accountant never holds.
SpendCallers == {"c1", "c2"}
CallerOrder == [c \in SpendCallers |-> IF c = "c1" THEN <<"t1">> ELSE <<"t3", "t2">>]
AccountantApproval == "t0"
SpendApprovals == {"t0", "t1", "t2"}

RECURSIVE KeepListed(_, _)
KeepListed(order, listed) ==
  IF order = <<>> THEN <<>>
  ELSE IF Head(order) \in listed THEN <<Head(order)>> \o KeepListed(Tail(order), listed)
  ELSE KeepListed(Tail(order), listed)

\* psbt.EstimateVirtualSize() + 160 of each approved transaction, and the
\* rates bitcoin.EstimateAvgFee answers.
VirtualSize(t) == IF t = "t1" THEN 1000 ELSE IF t = "t3" THEN 5000 ELSE 1001
FeeRates == {1, 2}

\* The fee of bitcoinSpendFullySignedTransaction.
SpendFee(t, fvb) ==
  IF fvb * VirtualSize(t) < ValueDust THEN ValueDust ELSE fvb * VirtualSize(t)

\* The accountant's deposits the observer may hold when the loops start.
AccountantDeposits ==
  {[hash |-> DepositHash(d.n), index |-> 0, satoshi |-> d.v, state |-> RequestStateInitial,
    spent_by |-> NullHash, raw |-> FALSE, created |-> d.at] :
     d \in {[n |-> "a", v |-> 500, at |-> 1], [n |-> "b", v |-> 800, at |-> 2],
            [n |-> "c", v |-> 900, at |-> 3], [n |-> "d", v |-> 3000, at |-> 4]}}

DepositsNamed(names) == {o \in AccountantDeposits : o.hash.deposit \in names}

AccountantPools == {DepositsNamed({"a"}), DepositsNamed({"a", "b"}), DepositsNamed({"c", "d"})}

SpendIdleRow ==
  [pc |-> "idle", todo |-> <<>>, tx |-> "", fee |-> 0, fvb |-> 0, feeInput |-> NoOutputRow,
   msgTx |-> NoSplitter]

FeeInputOf(o) == [hash |-> o.hash, index |-> o.index, satoshi |-> o.satoshi, raw |-> o.raw]

NoBroadcast == [pc |-> "idle", version |-> "", hash |-> NullHash,
                answer |-> [id |-> NullHash, err |-> ""], result |-> ""]

\* A panic in any goroutine of the observer ends its process: no loop and no
\* handler takes a further step.
ObserverUp ==
  /\ \A c \in SpendCallers : spend[c].pc # "panic"
  /\ lastBroadcast.pc # "panic"

\* What bitcoin.RPCGetTransaction answers for a hash: the transaction the
\* node holds, nothing, or the RPC's error.
RPCGetTransaction(chain, hash) ==
  IF hash \in chain
  THEN {[tx |-> hash, err |-> ""], [tx |-> NullHash, err |-> RPCDown]}
  ELSE {[tx |-> NullHash, err |-> ""], [tx |-> NullHash, err |-> RPCDown]}

\* err != nil || tx == nil.
TransactionMissing(got) == got.err # "" \/ got.tx = NullHash

\* keeperCombineBitcoinTransactionSignatures reaching FinishTransactionSignatures.
FinishSignatures ==
  \E t \in (DOMAIN approvals) \ {AccountantApproval} :
    /\ ObserverUp
    /\ approvals[t].state = RequestStatePending
    /\ approvals' = FinishTransactionSignatures(approvals, t)
    /\ UNCHANGED <<bitcoin_outputs, spend, chain_txs, lastBroadcast, notSpend>>

\* bitcoinTransactionSpendLoop: the sleep and ListFullySignedTransactionApprovals;
\* the range that follows works on this list.
SpendList(c) ==
  /\ ObserverUp
  /\ spend[c].pc = "idle"
  /\ LET todo == KeepListed(CallerOrder[c], ListFullySignedTransactionApprovals(approvals))
     IN /\ todo # <<>>
        /\ spend' = [spend EXCEPT ![c] = [SpendIdleRow EXCEPT !.pc = "range", !.todo = todo]]
  /\ UNCHANGED <<bitcoin_outputs, approvals, chain_txs, lastBroadcast, notSpend>>

\* The loop leaves the range on an error of bitcoinSpendFullySignedTransaction:
\* break, and the rest of the list waits for the next round.
SpendBreak(c) == SpendIdleRow

\* bitcoinSpendFullySignedTransaction for the next transaction of the range,
\* up to the return of AssignBitcoinUTXOByRangeForTransaction in
\* bitcoinRetrieveFeeInputsForTransaction; an error of EstimateAvgFee ends
\* the call before the store is touched.
SpendAssign(c) ==
  /\ ObserverUp
  /\ spend[c].pc = "range"
  /\ LET t == Head(spend[c].todo)
     IN \/ /\ spend' = [spend EXCEPT ![c] = SpendBreak(c)]
           /\ UNCHANGED bitcoin_outputs
        \/ \E fvb \in FeeRates :
             LET fee == SpendFee(t, fvb)
                 cands == AssignCandidates(bitcoin_outputs, FeeRangeMin(fee), FeeRangeMax(fee), t)
                 begun == [SpendIdleRow EXCEPT !.todo = spend[c].todo, !.tx = t,
                                               !.fee = fee, !.fvb = fvb]
             IN IF cands = {}
                THEN /\ spend' = [spend EXCEPT ![c] = [begun EXCEPT !.pc = "read"]]
                     /\ UNCHANGED bitcoin_outputs
                ELSE \E o \in cands :
                       LET r == AssignBitcoinUTXOByRangeForTransaction(bitcoin_outputs, o, t)
                       IN IF r.err
                          THEN /\ spend' = [spend EXCEPT ![c] = SpendBreak(c)]
                               /\ UNCHANGED bitcoin_outputs
                          ELSE /\ bitcoin_outputs' = r.outs
                               /\ spend' = [spend EXCEPT ![c] =
                                              [begun EXCEPT
                                                 !.pc = IF o.raw THEN "splitter" ELSE "spend",
                                                 !.feeInput = FeeInputOf(o)]]
  /\ UNCHANGED <<approvals, chain_txs, lastBroadcast, notSpend>>

\* bitcoinRetrieveFeeInputsForTransaction from ReadBitcoinUTXOs to the signed
\* splitter; without one the call ends with "insufficient accountant balance".
SpendBuildSplitter(c) ==
  /\ ObserverUp
  /\ spend[c].pc = "read"
  /\ LET m == BuildFeeSplitter(ReadBitcoinUTXOs(bitcoin_outputs), spend[c].fee, spend[c].fvb)
     IN spend' = [spend EXCEPT ![c] =
                    IF m = NoSplitter THEN SpendBreak(c)
                    ELSE [spend[c] EXCEPT !.pc = "write", !.msgTx = m]]
  /\ UNCHANGED <<bitcoin_outputs, approvals, chain_txs, lastBroadcast, notSpend>>

\* The WriteBitcoinFeeOutput that ends bitcoinRetrieveFeeInputsForTransaction.
SpendWriteFeeOutput(c) ==
  /\ ObserverUp
  /\ spend[c].pc = "write"
  /\ LET r == WriteBitcoinFeeOutput(bitcoin_outputs, spend[c].msgTx, spend[c].tx)
     IN IF r.err
        THEN /\ spend' = [spend EXCEPT ![c] = SpendBreak(c)]
             /\ UNCHANGED bitcoin_outputs
        ELSE /\ bitcoin_outputs' = r.outs
             /\ spend' = [spend EXCEPT ![c] =
                            [spend[c] EXCEPT
                               !.pc = "splitter",
                               !.feeInput = [hash |-> SplitterHash(spend[c].msgTx.ins,
                                                                   spend[c].msgTx.values),
                                             index |-> 0,
                                             satoshi |-> spend[c].msgTx.values[1],
                                             raw |-> TRUE]]]
  /\ UNCHANGED <<approvals, chain_txs, lastBroadcast, notSpend>>

\* bitcoinBroadcastTransactionAndWriteDeposit: the raw transaction of the fee
\* input, when it has one, is broadcast first.
SpendBroadcastSplitter(c) ==
  /\ ObserverUp
  /\ spend[c].pc = "splitter"
  /\ \E answer \in RPCAnswers(chain_txs, spend[c].feeInput.hash) :
       /\ chain_txs' = RPCSendRawTransaction(chain_txs, spend[c].feeInput.hash, answer)
       /\ spend' = [spend EXCEPT ![c] =
                      IF bitcoinBroadcastTransaction(spend[c].feeInput.hash, answer) # "nil"
                      THEN SpendBreak(c)
                      ELSE [spend[c] EXCEPT !.pc = "getSplitter"]]
  /\ UNCHANGED <<bitcoin_outputs, approvals, lastBroadcast, notSpend>>

\* bitcoinBroadcastTransactionAndWriteDeposit: the fee input's transaction is
\* read back from the node with RPCGetTransaction.
SpendGetSplitter(c) ==
  /\ ObserverUp
  /\ spend[c].pc = "getSplitter"
  /\ \E got \in RPCGetTransaction(chain_txs, spend[c].feeInput.hash) :
       spend' = [spend EXCEPT ![c] =
                   IF TransactionMissing(got) THEN SpendBreak(c)
                   ELSE [spend[c] EXCEPT !.pc = "spend"]]
  /\ UNCHANGED <<bitcoin_outputs, approvals, chain_txs, lastBroadcast, notSpend>>

\* bitcoinBroadcastTransactionAndWriteDeposit: the signed transaction with its
\* fee input is broadcast.
SpendBroadcastSpend(c) ==
  /\ ObserverUp
  /\ spend[c].pc = "spend"
  /\ LET hash == SpendHash(spend[c].tx, spend[c].feeInput)
     IN \E answer \in RPCAnswers(chain_txs, hash) :
          /\ chain_txs' = RPCSendRawTransaction(chain_txs, hash, answer)
          /\ spend' = [spend EXCEPT ![c] =
                         IF bitcoinBroadcastTransaction(hash, answer) # "nil"
                         THEN SpendBreak(c)
                         ELSE [spend[c] EXCEPT !.pc = "getSpend"]]
  /\ UNCHANGED <<bitcoin_outputs, approvals, lastBroadcast, notSpend>>

\* bitcoinBroadcastTransactionAndWriteDeposit: the signed transaction is read
\* back from the node with RPCGetTransaction.
SpendGetSpend(c) ==
  /\ ObserverUp
  /\ spend[c].pc = "getSpend"
  /\ \E got \in RPCGetTransaction(chain_txs, SpendHash(spend[c].tx, spend[c].feeInput)) :
       spend' = [spend EXCEPT ![c] =
                   IF TransactionMissing(got) THEN SpendBreak(c)
                   ELSE [spend[c] EXCEPT !.pc = "process"]]
  /\ UNCHANGED <<bitcoin_outputs, approvals, chain_txs, lastBroadcast, notSpend>>

\* bitcoinBroadcastTransactionAndWriteDeposit: return
\* node.bitcoinProcessTransaction(ctx, tx, chain), whose error ends the call
\* as the errors before it do.
SpendProcessTransaction(c) ==
  /\ ObserverUp
  /\ spend[c].pc = "process"
  /\ \E err \in BOOLEAN :
       spend' = [spend EXCEPT ![c] =
                   IF err THEN SpendBreak(c) ELSE [spend[c] EXCEPT !.pc = "confirm"]]
  /\ UNCHANGED <<bitcoin_outputs, approvals, chain_txs, lastBroadcast, notSpend>>

\* bitcoinTransactionSpendLoop after bitcoinSpendFullySignedTransaction
\* returned without error: ConfirmFullySignedTransactionApproval.
SpendConfirm(c) ==
  /\ ObserverUp
  /\ spend[c].pc = "confirm"
  /\ approvals' = ConfirmFullySignedTransactionApproval(
                    approvals, spend[c].tx, SpendHash(spend[c].tx, spend[c].feeInput))
  /\ spend' = [spend EXCEPT ![c].pc = "confirmed"]
  /\ UNCHANGED <<bitcoin_outputs, chain_txs, lastBroadcast, notSpend>>

\* bitcoinTransactionSpendLoop after the confirmation: the transaction is
\* read from the node and processed once more, and the loop panics when
\* either fails; otherwise the range goes on with the next transaction.
SpendAfterConfirm(c) ==
  /\ ObserverUp
  /\ spend[c].pc = "confirmed"
  /\ \E got \in RPCGetTransaction(chain_txs, SpendHash(spend[c].tx, spend[c].feeInput)),
        err \in BOOLEAN :
       spend' = [spend EXCEPT ![c] =
                   IF TransactionMissing(got) \/ err THEN [SpendIdleRow EXCEPT !.pc = "panic"]
                   ELSE IF Tail(spend[c].todo) = <<>> THEN SpendIdleRow
                   ELSE [SpendIdleRow EXCEPT !.pc = "range", !.todo = Tail(spend[c].todo)]]
  /\ UNCHANGED <<bitcoin_outputs, approvals, chain_txs, lastBroadcast, notSpend>>

\* What the signature checks of bitcoinAccountantSignTransaction find in the
\* partially signed transactions, and how its store reads end.
AccountantChecks == {"ok", "holder key", "signer key", "signature differs", "signature invalid",
                     "store error"}

\* bitcoinAccountantSignTransaction up to the return of
\* FinishTransactionSignatures: a failed signature check panics, an error of
\* the store is returned before anything is written.
AccountantFinishSignatures ==
  /\ ObserverUp
  /\ lastBroadcast.pc = "idle"
  /\ approvals[AccountantApproval].state # RequestStateDone
  /\ \E check \in AccountantChecks :
       IF check = "store error"
       THEN /\ lastBroadcast' = [NoBroadcast EXCEPT !.result = "store error"]
            /\ UNCHANGED approvals
       ELSE IF check # "ok"
       THEN /\ lastBroadcast' = [NoBroadcast EXCEPT !.pc = "panic"]
            /\ UNCHANGED approvals
       ELSE /\ approvals' = FinishTransactionSignatures(approvals, AccountantApproval)
            /\ lastBroadcast' = [NoBroadcast EXCEPT !.pc = "broadcast"]
  /\ UNCHANGED <<bitcoin_outputs, spend, chain_txs, notSpend>>

\* bitcoinAccountantSignTransaction: the transaction is broadcast under its
\* own hash.
AccountantBroadcast ==
  /\ ObserverUp
  /\ lastBroadcast.pc = "broadcast"
  /\ \E answer \in RPCAnswers(chain_txs, ApprovalHash(AccountantApproval)) :
       /\ chain_txs' = RPCSendRawTransaction(chain_txs, ApprovalHash(AccountantApproval), answer)
       /\ lastBroadcast' = [pc |-> "idle", version |-> "accountant",
                            hash |-> ApprovalHash(AccountantApproval),
                            answer |-> answer,
                            result |-> bitcoinBroadcastTransactionLegacy(
                                         ApprovalHash(AccountantApproval), answer)]
  /\ UNCHANGED <<bitcoin_outputs, approvals, spend, notSpend>>

SpendInit ==
  /\ bitcoin_outputs \in AccountantPools
  /\ approvals = [t \in SpendApprovals |-> [state |-> RequestStatePending, spent_hash |-> NullHash]]
  /\ spend = [c \in SpendCallers |-> SpendIdleRow]
  /\ chain_txs \in {{}, {ApprovalHash(AccountantApproval)}}
  /\ lastBroadcast = NoBroadcast
  /\ StoreEmpty /\ SignerEmpty /\ ObserverIdle /\ KeeperIdle /\ NetworkIdle /\ KeysIdle
  /\ WireIdle /\ QueueIdle /\ LateIdle

SpendNext ==
  \/ FinishSignatures
  \/ AccountantFinishSignatures
  \/ AccountantBroadcast
  \/ \E c \in SpendCallers : SpendList(c)
  \/ \E c \in SpendCallers : SpendAssign(c)
  \/ \E c \in SpendCallers : SpendBuildSplitter(c)
  \/ \E c \in SpendCallers : SpendWriteFeeOutput(c)
  \/ \E c \in SpendCallers : SpendBroadcastSplitter(c)
  \/ \E c \in SpendCallers : SpendGetSplitter(c)
  \/ \E c \in SpendCallers : SpendBroadcastSpend(c)
  \/ \E c \in SpendCallers : SpendGetSpend(c)
  \/ \E c \in SpendCallers : SpendProcessTransaction(c)
  \/ \E c \in SpendCallers : SpendConfirm(c)
  \/ \E c \in SpendCallers : SpendAfterConfirm(c)

SpecSpend == SpendInit /\ [][SpendNext]_vars

----------------------------------------------------------------------------
(* C22 *)

\* What a broadcast is to return for an answer of RPCSendRawTransaction.
BroadcastAsSpecified(hash, answer, result) ==
  /\ answer.err = AlreadyInBlockChain => result = "nil"
  /\ answer.err \notin {"", AlreadyInBlockChain} => result = answer.err
  /\ (answer.err = "" /\ answer.id # hash) => result = "malformed bitcoin transaction"
  /\ (answer.err = "" /\ answer.id = hash) => result = "nil"

\* The broadcasts of the spend loops, for every answer the node may give.
CurrentBroadcastsAsSpecified ==
  \A c \in SpendCallers :
    spend[c].pc \in {"splitter", "spend"} =>
      LET hash == IF spend[c].pc = "splitter" THEN spend[c].feeInput.hash
                  ELSE SpendHash(spend[c].tx, spend[c].feeInput)
      IN \A answer \in RPCAnswers(chain_txs, hash) :
           BroadcastAsSpecified(hash, answer, bitcoinBroadcastTransaction(hash, answer))

\* C22: bitcoinBroadcastTransaction returns success when the RPC reports the
\* transaction as already in the block chain, returns the RPC's error for
\* any other failure, and returns a malformed-transaction error when the RPC
\* succeeds with an id other than the expected hash.
C22_BroadcastOutcome ==
  /\ CurrentBroadcastsAsSpecified
  /\ lastBroadcast.version = "accountant" =>
       BroadcastAsSpecified(lastBroadcast.hash, lastBroadcast.answer, lastBroadcast.result)

----------------------------------------------------------------------------
(* C25 *)

\* Caller c obtains its fee input in this step.
FeeInputObtained(c) ==
  /\ spend[c].feeInput = NoOutputRow
  /\ spend'[c].feeInput # NoOutputRow

\* No run of the accountant's unspent outputs, taken in the order they were
\* created, covers the fee and the splitter's own network fee.
CannotCover(outs, fee, fvb) ==
  LET rows == ReadBitcoinUTXOs(outs)
  IN \A n \in 1..Len(rows) :
       SumSatoshi(SubSeq(rows, 1, n)) < EstimateSplitterSize(n) * fvb + fee

\* C25 as stated: the fee input is an unspent accountant output whose value
\* lies in [0.9 fee, 1.1 fee], or output 0, of value fee, of a fee splitter
\* built in this step; when the outputs cannot cover the fee and the
\* splitter's network fee, no fee input is returned and nothing is marked.
C25_FeeInputUnspentInRange ==
  [][\A c \in SpendCallers :
       /\ FeeInputObtained(c) =>
            LET f == spend'[c].feeInput
                fee == spend'[c].fee
            IN \/ \E o \in bitcoin_outputs :
                    /\ o.hash = f.hash /\ o.index = f.index
                    /\ o.state = RequestStateInitial
                    /\ 10 * o.satoshi >= 9 * fee
                    /\ 10 * o.satoshi <= 11 * fee
               \/ /\ \A o \in bitcoin_outputs : o.hash # f.hash
                  /\ f.index = 0
                  /\ f.satoshi = fee
       /\ (/\ spend[c].pc = "read"
           /\ spend'[c] # spend[c]
           /\ CannotCover(bitcoin_outputs, spend[c].fee, spend[c].fvb)) =>
            /\ spend'[c].feeInput = NoOutputRow
            /\ spend'[c].pc = "idle"
            /\ bitcoin_outputs' = bitcoin_outputs]_vars

\* C25, amended: the fee input is an output an earlier attempt assigned to
\* this transaction, whatever its value; or an unspent accountant output
\* with floor(0.9 fee) <= value <= floor(1.1 fee), which the step marks Done
\* and spent by the transaction; or output 0, of value fee, of a fee splitter
\* written in this step.  When the outputs cannot cover the fee and the
\* splitter's network fee, no fee input is returned and nothing is marked.
C25_FeeInputAssignedOrInFlooredRange ==
  [][\A c \in SpendCallers :
       /\ FeeInputObtained(c) =>
            LET f == spend'[c].feeInput
                fee == spend'[c].fee
                by == ApprovalHash(spend'[c].tx)
            IN \/ /\ \E o \in bitcoin_outputs :
                       o.hash = f.hash /\ o.index = f.index /\ o.spent_by = by
                  /\ bitcoin_outputs' = bitcoin_outputs
               \/ \E o \in bitcoin_outputs :
                    /\ o.hash = f.hash /\ o.index = f.index
                    /\ o.state = RequestStateInitial /\ o.spent_by = NullHash
                    /\ (fee * 9) \div 10 <= o.satoshi
                    /\ o.satoshi <= (fee * 11) \div 10
                    /\ [o EXCEPT !.state = RequestStateDone, !.spent_by = by] \in bitcoin_outputs'
               \/ /\ \A o \in bitcoin_outputs : o.hash # f.hash
                  /\ f.index = 0
                  /\ f.satoshi = fee
                  /\ \E o \in bitcoin_outputs' :
                       /\ o.hash = f.hash /\ o.index = 0 /\ o.satoshi = fee
                       /\ o.state = RequestStateDone /\ o.spent_by = by
       /\ (/\ spend[c].pc = "read"
           /\ spend'[c] # spend[c]
           /\ CannotCover(bitcoin_outputs, spend[c].fee, spend[c].fvb)) =>
            /\ spend'[c].feeInput = NoOutputRow
            /\ spend'[c].pc = "idle"
            /\ bitcoin_outputs' = bitcoin_outputs]_vars

C25_Witness ==
  \E c1, c2 \in SpendCallers :
    /\ spend[c1].feeInput # NoOutputRow
    /\ ~spend[c1].feeInput.raw
    /\ spend[c2].feeInput.raw
    /\ spend[c2].feeInput.index = 0
    /\ spend[c2].feeInput.satoshi = spend[c2].fee
    /\ \E o \in bitcoin_outputs :
         /\ o.hash = spend[c2].feeInput.hash /\ o.index = 1
         /\ o.state = RequestStateInitial

----------------------------------------------------------------------------
(* C26 *)

\* C26: an approval is confirmed as spent only once its signatures are
\* combined and the chain's node holds the signed transaction it is confirmed
\* with; a spend loop gets its signed transaction accepted only when the fee
\* splitter of its fee input is already held by the node; and a broadcast
\* that fails leaves the approval unconfirmed and listed for the next round.
C26_ConfirmedOnlyAfterBroadcast ==
  /\ [](\A t \in SpendApprovals :
          approvals[t].spent_hash # NullHash =>
            /\ approvals[t].state = RequestStateDone
            /\ approvals[t].spent_hash \in chain_txs)
  /\ [][/\ \A c \in SpendCallers :
            /\ (spend[c].pc = "spend" /\ spend'[c].pc = "getSpend" /\ spend[c].feeInput.raw) =>
                 spend[c].feeInput.hash \in chain_txs
            /\ (/\ spend[c].pc \in {"splitter", "getSplitter", "spend", "getSpend", "process"}
                /\ spend'[c].pc = "idle") =>
                 /\ approvals' = approvals
                 /\ spend[c].tx \in ListFullySignedTransactionApprovals(approvals')
        /\ \A t \in SpendApprovals :
             approvals'[t].spent_hash # approvals[t].spent_hash =>
               \E c \in SpendCallers : spend[c].pc = "confirm" /\ spend[c].tx = t]_vars

C26_Witness ==
  \E t \in SpendApprovals :
    /\ approvals[t].spent_hash # NullHash
    /\ approvals[t].spent_hash \in chain_txs
    /\ approvals[t].spent_hash.fee_index = 0
    /\ approvals[t].spent_hash.fee_hash \in chain_txs

----------------------------------------------------------------------------
(* C27 *)

\* C27: however the spend loops interleave, an accountant output has spent_by
\* set exactly when its state is Done, an output that is Done keeps its state
\* and its spent_by, and no output is assigned to two transactions: the
\* table holds one row per output and two loops never hold the same fee
\* input.
C27_OutputsSpentOnce ==
  /\ [](/\ \A o \in bitcoin_outputs :
             (o.spent_by # NullHash) <=> (o.state = RequestStateDone)
        /\ \A o, p \in bitcoin_outputs :
             (o.hash = p.hash /\ o.index = p.index) => o = p
        /\ \A c1, c2 \in SpendCallers :
             (/\ c1 # c2
              /\ spend[c1].feeInput # NoOutputRow
              /\ spend[c2].feeInput # NoOutputRow) =>
                ~(/\ spend[c1].feeInput.hash = spend[c2].feeInput.hash
                  /\ spend[c1].feeInput.index = spend[c2].feeInput.index))
  /\ [][\A o \in bitcoin_outputs :
          o.state = RequestStateDone => o \in bitcoin_outputs']_vars

C27_Witness ==
  /\ \A c \in SpendCallers :
       spend[c].pc \in {"splitter", "getSplitter", "spend", "getSpend", "process", "confirm"}
  /\ \E o, p \in bitcoin_outputs :
       /\ o.spent_by = ApprovalHash("t1")
       /\ p.spent_by = ApprovalHash("t2")
  /\ \E o \in bitcoin_outputs : o.state = RequestStateDone /\ o.hash = DepositHash("c")

----------------------------------------------------------------------------
(* common: the Operation envelope (Operation.Encode, DecodeOperation) *)

\* Byte strings are sequences of 0..255; Operation.Id and Operation.Public
\* are strings of characters, one character per element.
LowerHexChars == <<"0", "1", "2", "3", "4", "5", "6", "7", "8", "9",
                   "a", "b", "c", "d", "e", "f">>
UpperHexChars == <<"0", "1", "2", "3", "4", "5", "6", "7", "8", "9",
                   "A", "B", "C", "D", "E", "F">>

\* encoding/hex fromHexChar: the value of a digit of either case, -1 for any
\* other character.
FromHexChar(ch) ==
  IF \E v \in 1..16 : LowerHexChars[v] = ch
  THEN (CHOOSE v \in 1..16 : LowerHexChars[v] = ch) - 1
  ELSE IF \E v \in 1..16 : UpperHexChars[v] = ch
  THEN (CHOOSE v \in 1..16 : UpperHexChars[v] = ch) - 1
  ELSE -1

\* hex.DecodeString: an error for an odd length or a character that is no
\* hex digit, otherwise one byte per pair of digits.
HexDecodeString(str) ==
  IF Len(str) % 2 # 0 \/ \E i \in DOMAIN str : FromHexChar(str[i]) = -1
  THEN [bytes |-> <<>>, err |-> TRUE]
  ELSE [bytes |-> [i \in 1..(Len(str) \div 2) |->
                     16 * FromHexChar(str[2 * i - 1]) + FromHexChar(str[2 * i])],
        err |-> FALSE]

\* The text of a UUID: 32 hex digits in groups of 8, 4, 4, 4 and 12.
FormatUUID(digits) ==
  SubSeq(digits, 1, 8) \o <<"-">> \o SubSeq(digits, 9, 12) \o <<"-">>
    \o SubSeq(digits, 13, 16) \o <<"-">> \o SubSeq(digits, 17, 20) \o <<"-">>
    \o SubSeq(digits, 21, 32)

\* The 16 bytes of a UUID given as text, as writeUUID writes them.
UUIDFromString(str) ==
  LET digits == SelectSeq(str, LAMBDA ch : ch # "-")
  IN IF Len(str) # 36 \/ FormatUUID(digits) # str
     THEN [bytes |-> <<>>, err |-> TRUE]
     ELSE HexDecodeString(digits)

\* writeBytes that writes the bytes without their length.
WriteBytesWithoutLength(bytes) == bytes

\* writeBytes: the length as a big-endian uint16, then the bytes.
WriteBytes(bytes) == <<Len(bytes) \div 256, Len(bytes) % 256>> \o bytes

\* Operation.Encode: the bytes, or the panic on a Public that is no hex.
Encode(op) ==
  LET pub == HexDecodeString(op.public)
      id == UUIDFromString(op.id)
  IN IF pub.err \/ id.err \/ Len(pub.bytes) > 65535 \/ Len(op.extra) > 65535
     THEN [bytes |-> <<>>, panic |-> TRUE]
     ELSE [bytes |-> id.bytes \o <<op.type, op.curve>> \o WriteBytes(pub.bytes)
                       \o WriteBytes(op.extra),
           panic |-> FALSE]

MalformedEnvelope == [err |-> "MalformedEnvelope"]

\* ReadBytes at offset at of b: the big-endian uint16 length and that many
\* bytes, and the offset behind them; an error when b is too short.
ReadBytes(b, at) ==
  IF at + 1 > Len(b) THEN [err |-> TRUE, bytes |-> <<>>, next |-> at]
  ELSE LET n == 256 * b[at] + b[at + 1]
       IN IF at + 1 + n > Len(b) THEN [err |-> TRUE, bytes |-> <<>>, next |-> at]
          ELSE [err |-> FALSE, bytes |-> SubSeq(b, at + 2, at + 1 + n), next |-> at + 2 + n]

\* common.DecodeOperation: the fields of the envelope as it holds them, the
\* 16 bytes of the id, type, curve, and the bytes of public and of extra;
\* MalformedEnvelope when a length exceeds the buffer or bytes remain.
DecodeOperation(b) ==
  IF Len(b) < 18 THEN MalformedEnvelope
  ELSE LET pub == ReadBytes(b, 19)
           extra == ReadBytes(b, pub.next)
       IN IF pub.err \/ extra.err \/ extra.next # Len(b) + 1 THEN MalformedEnvelope
          ELSE [id |-> SubSeq(b, 1, 16), type |-> b[17], curve |-> b[18],
                public |-> pub.bytes, extra |-> extra.bytes]

\* The Operations of the model: the id of the README's example, the same id
\* written in upper case, and the nil UUID.
ExampleDigits ==
  <<"2", "e", "7", "8", "d", "0", "4", "a", "e", "6", "1", "a", "4", "4", "2", "d",
    "a", "0", "1", "4", "d", "e", "c", "1", "9", "b", "d", "6", "1", "c", "f", "e">>

UpperCase(str) ==
  [i \in DOMAIN str |->
     IF FromHexChar(str[i]) = -1 THEN str[i] ELSE UpperHexChars[FromHexChar(str[i]) + 1]]

OperationIds ==
  {FormatUUID(ExampleDigits), UpperCase(FormatUUID(ExampleDigits)),
   FormatUUID([i \in 1..32 |-> "0"])}

OperationPublics ==
  {<<>>, <<"0", "0">>, <<"0", "1">>, <<"a", "b">>, <<"A", "B">>, <<"a", "B">>,
   <<"0">>, <<"g", "0">>, <<"0", "0", "0", "1">>}

OperationExtras ==
  {<<>>, <<0>>, <<1>>, <<0, 0>>, <<0, 1>>, <<255>>, [i \in 1..256 |-> 0]}

Operations ==
  [id : OperationIds, type : {1, 255}, curve : {1, 2},
   public : OperationPublics, extra : OperationExtras]

\* The fields of an Operation as the envelope carries them: the 16 bytes of
\* Id, and the bytes Public is the hex of.
Fields(op) ==
  [id |-> UUIDFromString(op.id).bytes, type |-> op.type, curve |-> op.curve,
   public |-> HexDecodeString(op.public).bytes, extra |-> op.extra]

\* A memo with op is made, ...
EncodeOperation ==
  /\ wire.stage = "new"
  /\ wire' = [wire EXCEPT !.stage = "encoded", !.encoded = Encode(wire.op)]
  /\ UNCHANGED notWire

\* ... may lose its last byte on the way, ...
TruncateMemo ==
  /\ wire.stage = "encoded"
  /\ ~wire.encoded.panic
  /\ wire.intact
  /\ wire' = [wire EXCEPT !.intact = FALSE,
                          !.encoded.bytes = SubSeq(@, 1, Len(@) - 1)]
  /\ UNCHANGED notWire

\* ... and is decoded by its receiver.
ReceiveOperation ==
  /\ wire.stage = "encoded"
  /\ ~wire.encoded.panic
  /\ wire' = [wire EXCEPT !.stage = "decoded", !.decoded = DecodeOperation(wire.encoded.bytes)]
  /\ UNCHANGED notWire

OperationInit ==
  /\ \E op \in Operations :
       wire = [stage |-> "new", op |-> op, encoded |-> [bytes |-> <<>>, panic |-> FALSE],
               intact |-> TRUE, decoded |-> MalformedEnvelope]
  /\ StoreEmpty /\ SignerEmpty /\ ObserverIdle /\ KeeperIdle /\ NetworkIdle /\ KeysIdle
  /\ SpendIdle /\ QueueIdle /\ LateIdle

OperationNext == EncodeOperation \/ TruncateMemo \/ ReceiveOperation

SpecOperation == OperationInit /\ [][OperationNext]_vars

----------------------------------------------------------------------------
(* C28 *)

\* The fields and the encoding of every Operation of the model that Encode
\* encodes.
Encoded ==
  {[fields |-> Fields(op), encoded |-> Encode(op)] :
     op \in {x \in Operations : ~Encode(x).panic}}

\* C28: for every Operation (16-byte id, type, curve, public and extra),
\* decoding its encoding yields the Operation's fields again, and two
\* Operations that differ in a field have different encodings.
C28_EncodeDecodeEveryOperation ==
  LET fields == Fields(wire.op)
  IN /\ (wire.stage = "decoded" /\ wire.intact) => wire.decoded = fields
     /\ (wire.stage = "encoded" /\ wire.intact /\ ~wire.encoded.panic) =>
          \A other \in Encoded :
            other.fields # fields => other.encoded # wire.encoded

\* An id and a Public written in upper case, and an extra of 256 bytes: the
\* lengths are written big-endian, and the fields come back.
C28_Witness ==
  /\ wire.stage = "decoded"
  /\ wire.intact
  /\ wire.op.id = UpperCase(FormatUUID(ExampleDigits))
  /\ wire.op.public = <<"A", "B">>
  /\ Len(wire.op.extra) = 256
  /\ wire.decoded.public = <<171>>
  /\ wire.decoded.id[1] = 46 /\ wire.decoded.id[16] = 254
  /\ wire.decoded.extra = wire.op.extra
  /\ wire.encoded.bytes[19] = 0 /\ wire.encoded.bytes[20] = 1
  /\ wire.encoded.bytes[22] = 1 /\ wire.encoded.bytes[23] = 0

----------------
(* signer node: queueOperation under loopInitialSessions and *)
(* acceptIncomingMessages                                     *)

QueueSessionIds == {"q1", "q2"}
QueueGoroutines == {"loopInitialSessions", "acceptIncomingMessages"}

\* A Lock that never waits.
MutexAlwaysFree(mutex) == TRUE

\* node.mutex.Lock() returns once no goroutine holds the mutex.
MutexFree(mutex) == mutex = ""

QueueIdleRow == [pc |-> "idle", id |-> "", todo |-> {}, wait |-> <<>>, seen |-> FALSE, ret |-> ""]

\* loopInitialSessions panics on the error of a startOperation, and the
\* panic ends the process with all its goroutines.
QueueUp == queue_pc["loopInitialSessions"].pc # "panic"

\* store.ListSessions(RequestStateInitial, runtime.NumCPU()).
ListInitialSessions(ss) == {id \in DOMAIN ss : ss[id].state = RequestStateInitial}

\* loopInitialSessions: the sessions in state Initial are listed.
LoopListSessions ==
  LET g == "loopInitialSessions"
  IN /\ queue_pc[g].pc = "idle"
     /\ ListInitialSessions(sessions) # {}
     /\ queue_pc' = [queue_pc EXCEPT ![g] = [QueueIdleRow EXCEPT
                       !.pc = "range", !.todo = ListInitialSessions(sessions)]]
     /\ UNCHANGED <<sessions, node_operations, node_mutex, started, notQueue>>

\* loopInitialSessions: the next session of the list goes to queueOperation;
\* after the last one the loop waits for the results.
LoopNextSession ==
  LET g == "loopInitialSessions"
  IN /\ queue_pc[g].pc = "range"
     /\ IF queue_pc[g].todo = {}
        THEN queue_pc' = [queue_pc EXCEPT ![g].pc = "results"]
        ELSE \E id \in queue_pc[g].todo :
               queue_pc' = [queue_pc EXCEPT ![g].pc = "lock", ![g].id = id,
                                            ![g].todo = @ \ {id}]
     /\ UNCHANGED <<sessions, node_operations, node_mutex, started, notQueue>>

\* loopInitialSessions: the result channels are read in the order of the
\* range; an error is a panic, and after the last result the loop sleeps.
LoopAwaitResults ==
  LET g == "loopInitialSessions"
  IN /\ queue_pc[g].pc = "results"
     /\ IF queue_pc[g].wait = <<>>
        THEN queue_pc' = [queue_pc EXCEPT ![g] = QueueIdleRow]
        ELSE /\ ~started[Head(queue_pc[g].wait)].running
             /\ queue_pc' = [queue_pc EXCEPT ![g] =
                               IF started[Head(queue_pc[g].wait)].err
                               THEN [QueueIdleRow EXCEPT !.pc = "panic"]
                               ELSE [queue_pc[g] EXCEPT !.wait = Tail(queue_pc[g].wait)]]
     /\ UNCHANGED <<sessions, node_operations, node_mutex, started, notQueue>>

\* acceptIncomingMessages: a first round message of a session arrives; the
\* session is read, and queued when it is in state Initial.
AcceptFirstRoundMessage ==
  LET g == "acceptIncomingMessages"
  IN /\ QueueUp
     /\ queue_pc[g].pc = "idle"
     /\ \E id \in QueueSessionIds :
          LET r == ReadSession(sessions, id)
          IN queue_pc' = [queue_pc EXCEPT ![g] =
                            IF r # NoRow /\ r.state = RequestStateInitial
                            THEN [QueueIdleRow EXCEPT !.pc = "lock", !.id = id]
                            ELSE QueueIdleRow]
     /\ UNCHANGED <<sessions, node_operations, node_mutex, started, notQueue>>

\* queueOperation: node.mutex.Lock().
QueueLock(g) ==
  /\ QueueUp
  /\ queue_pc[g].pc = "lock"
  /\ MutexFree(node_mutex)
  /\ node_mutex' = g
  /\ queue_pc' = [queue_pc EXCEPT ![g].pc = "check"]
  /\ UNCHANGED <<sessions, node_operations, started, notQueue>>

\* queueOperation: if node.operations[op.Id].
QueueCheck(g) ==
  /\ QueueUp
  /\ queue_pc[g].pc = "check"
  /\ queue_pc' = [queue_pc EXCEPT ![g].pc = "set",
                                  ![g].seen = queue_pc[g].id \in node_operations]
  /\ UNCHANGED <<sessions, node_operations, node_mutex, started, notQueue>>

\* queueOperation: return nil, or node.operations[op.Id] = true and the
\* goroutine of startOperation.
QueueSet(g) ==
  /\ QueueUp
  /\ queue_pc[g].pc = "set"
  /\ IF queue_pc[g].seen
     THEN /\ queue_pc' = [queue_pc EXCEPT ![g].pc = "unlock", ![g].ret = "nil"]
          /\ UNCHANGED <<node_operations, started>>
     ELSE /\ node_operations' = node_operations \cup {queue_pc[g].id}
          /\ started' = [started EXCEPT ![queue_pc[g].id] =
                           [calls |-> @.calls + 1, running |-> TRUE, err |-> FALSE]]
          /\ queue_pc' = [queue_pc EXCEPT ![g].pc = "unlock", ![g].ret = "chan"]
  /\ UNCHANGED <<sessions, node_mutex, notQueue>>

\* queueOperation: the deferred node.mutex.Unlock(), and the return to the
\* caller.
QueueUnlock(g) ==
  /\ QueueUp
  /\ queue_pc[g].pc = "unlock"
  /\ node_mutex' = ""
  /\ queue_pc' = [queue_pc EXCEPT ![g] =
                    IF g = "loopInitialSessions"
                    THEN [queue_pc[g] EXCEPT
                            !.pc = "range",
                            !.wait = IF queue_pc[g].ret = "chan"
                                     THEN Append(@, queue_pc[g].id) ELSE @]
                    ELSE [queue_pc[g] EXCEPT !.pc = "idle"]]
  /\ UNCHANGED <<sessions, node_operations, started, notQueue>>

\* How startOperation ends: the session has its result (MarkSessionPending,
\* WriteKeyIfNotExists), has failed (FailSession), or is left Initial, by a
\* startSign of a node that is not among the signers (nil) or by one that
\* returns an error of its tests before it writes.
StartOperationOutcomes == {"Pending", "Failed", "nil", "error"}

\* startOperation returns.
StartOperationReturns ==
  \E id \in QueueSessionIds, outcome \in StartOperationOutcomes :
    /\ QueueUp
    /\ started[id].running
    /\ started' = [started EXCEPT ![id] = [calls |-> started[id].calls, running |-> FALSE,
                                            err |-> outcome = "error"]]
    /\ sessions' = [sessions EXCEPT ![id].state =
                      IF outcome = "Pending" THEN RequestStatePending
                      ELSE IF outcome = "Failed" THEN RequestStateFailed
                      ELSE sessions[id].state]
    /\ UNCHANGED <<node_operations, node_mutex, queue_pc, notQueue>>

QueueInit ==
  /\ sessions \in [QueueSessionIds -> {NoRow, [state |-> RequestStateInitial]}]
  /\ node_operations = {}
  /\ node_mutex = ""
  /\ started = [id \in QueueSessionIds |-> NotStarted]
  /\ queue_pc = [g \in QueueGoroutines |-> QueueIdleRow]
  /\ session_signers = [id \in SessionIds |-> [m \in MemberSet |-> Absent]]
  /\ keys = {StoredKey}
  /\ cur = NoOutput
  /\ hist = <<>>
  /\ StoreEmpty /\ ObserverIdle /\ KeeperIdle /\ NetworkIdle /\ KeysIdle
  /\ SpendIdle /\ WireIdle /\ LateIdle

QueueNext ==
  \/ LoopListSessions
  \/ LoopNextSession
  \/ LoopAwaitResults
  \/ AcceptFirstRoundMessage
  \/ \E g \in QueueGoroutines : QueueLock(g)
  \/ \E g \in QueueGoroutines : QueueCheck(g)
  \/ \E g \in QueueGoroutines : QueueSet(g)
  \/ \E g \in QueueGoroutines : QueueUnlock(g)
  \/ StartOperationReturns

SpecQueue == QueueInit /\ [][QueueNext]_vars

----------------------------------------------------------------------------
(* C29 *)

\* C29: however loopInitialSessions and acceptIncomingMessages interleave,
\* startOperation is called at most once for a session id, and exactly the
\* ids in node.operations have been started.
C29_OperationStartedAtMostOnce ==
  \A id \in QueueSessionIds :
    /\ started[id].calls <= 1
    /\ (started[id].calls = 1) <=> (id \in node_operations)

C29_Witness ==
  \E id \in QueueSessionIds :
    /\ started[id].calls = 1
    /\ queue_pc["loopInitialSessions"].id = id
    /\ queue_pc["acceptIncomingMessages"].id = id
    /\ queue_pc["loopInitialSessions"].pc = "unlock"
    /\ queue_pc["loopInitialSessions"].ret = "nil"
    /\ queue_pc["acceptIncomingMessages"].ret = "chan"
    /\ sessions[id].state = RequestStateInitial

----------------------------------------------------------------------------
(* C31 *)

\* C31: an output on the signer asset whose senders are not exactly one
\* genesis member leaves sessions, session signers and keys as they were and
\* makes ProcessOutput return no transaction and no asset: each run of
\* processAction on it returns at once, and the call returns the same.
C31_ForeignSendersChangeNothing ==
  /\ \A out \in Outputs, balance \in 0..1 :
       (/\ ~out.deposit
        /\ out.asset = SignerAssetId
        /\ ~(Len(out.senders) = 1 /\ out.senders[1] \in MemberSet)) =>
          LET r == processAction(signerState, out, balance)
          IN /\ ~r.mark
             /\ r.st = signerState
             /\ r.res = NoTransactions
  /\ (/\ cur # NoOutput
      /\ cur.asset = SignerAssetId
      /\ ~(Len(cur.senders) = 1 /\ cur.senders[1] \in MemberSet)) =>
        \A i \in 1..Len(hist) :
          /\ hist[i] # ReplayPanic
          /\ hist[i].fault = "" => hist[i] = NoTransactions

C31_Witness ==
  /\ cur # NoOutput
  /\ cur.asset = SignerAssetId
  /\ cur.senders = <<"m2", "m3">>
  /\ hist = <<NoTransactions>>
  /\ sessions[cur.op.id] # NoRow
  /\ sessions[cur.op.id].operation = cur.op.type
  /\ session_signers[cur.op.id]["m2"] = ""

----------------------------------------------------------------------------
(* C38 *)

\* The members whose PREPARE left a row for the session.
PreparedBy(id) == {m \in MemberSet : session_signers[id][m] # Absent}

IsSignSession(id) ==
  sessions[id] # NoRow /\ sessions[id].operation = OperationTypeSignInput

\* A PREPARE output of one member for a session that is already prepared.
FurtherPrepares ==
  {out \in Outputs : /\ ~out.deposit
                     /\ out.asset = SignerAssetId
                     /\ SingleMemberSender(out)
                     /\ out.op.type = OperationTypeSignInput
                     /\ out.op.extra = PrepareExtra
                     /\ IsSignSession(out.op.id)
                     /\ sessions[out.op.id].prepared}

PreparedNeedsMoreThanThreshold ==
  \A id \in SessionIds :
    (IsSignSession(id) /\ sessions[id].prepared) =>
       Cardinality(PreparedBy(id)) > SignerThreshold

FurtherPrepareChangesNothing ==
  \A out \in FurtherPrepares, balance \in 0..1 :
    LET r == processAction(signerState, out, balance)
    IN ~r.mark /\ r.st = signerState /\ r.res = NoTransactions

PreparedOnlyByPrepare ==
  \A id \in SessionIds :
    (/\ IsSignSession(id)
     /\ ~sessions[id].prepared
     /\ sessions'[id] # NoRow
     /\ sessions'[id].prepared) =>
       /\ cur'.asset = SignerAssetId
       /\ cur'.op.id = id
       /\ cur'.op.extra = PrepareExtra
       /\ session_signers'[id][cur'.senders[1]] # Absent
       /\ Cardinality({m \in MemberSet : session_signers'[id][m] # Absent}) > SignerThreshold

\* C38: a sign session becomes prepared only in the step that handles a
\* PREPARE and leaves rows of strictly more than threshold distinct members
\* for it; once it is prepared, a further PREPARE of any member changes no
\* state and yields no transaction.
C38_PreparedAfterThresholdPrepares ==
  /\ [](PreparedNeedsMoreThanThreshold /\ FurtherPrepareChangesNothing)
  /\ [][PreparedOnlyByPrepare]_vars

C38_Witness ==
  /\ IsSignSession("s1")
  /\ sessions["s1"].prepared
  /\ cur # NoOutput
  /\ cur.asset = SignerAssetId
  /\ cur.op.type = OperationTypeSignInput
  /\ cur.op.extra = PrepareExtra
  /\ session_signers["s1"][cur.senders[1]] = Absent
  /\ Cardinality(PreparedBy("s1")) = SignerThreshold + 1

----------------------------------------------------------------------------
(* C34 *)

\* Every order in which Genesis.Members can list the members.
MemberOrders ==
  {o \in [1..Len(Members) -> MemberSet] : \A i, j \in 1..Len(Members) : o[i] = o[j] => i = j}

\* What a member's row of session_signers can hold: no row, a row a PREPARE
\* created, or one of two signatures.
ReportedExtras == {Absent, "", ValidSignature, "sigBad"}

\* The session row whose results are verified.
VerifiedSession(type) ==
  [state |-> RequestStateInitial, id |-> "s1", operation |-> type,
   curve |-> StoredKey.curve, public |-> StoredKey.public,
   extra |-> Message, prepared |-> TRUE]

\* processSignerResult lists the rows of the session and verifies them.
CallVerifySessionSignerResults ==
  /\ hist = <<>>
  /\ hist' = <<verifySessionSignerResults(sessions["s1"],
                  ListSessionSignerResults(session_signers, "s1"))>>
  /\ UNCHANGED <<sessions, session_signers, keys, cur, notSigner>>

VerifyInit ==
  /\ sessions \in {[id \in SessionIds |-> VerifiedSession(type)] :
                     type \in {OperationTypeSignInput, OperationTypeKeygenInput}}
  /\ session_signers \in [SessionIds -> [MemberSet -> ReportedExtras]]
  /\ keys = {StoredKey}
  /\ cur = NoOutput
  /\ hist = <<>>
  /\ StoreEmpty /\ ObserverIdle /\ KeeperIdle /\ NetworkIdle /\ KeysIdle
  /\ SpendIdle /\ WireIdle /\ QueueIdle /\ ReplayIdle /\ ReceiveIdle
  /\ PendingIdle /\ SnapshotIdle

VerifyNext == CallVerifySessionSignerResults

SpecVerify == VerifyInit /\ [][VerifyNext]_vars

\* Strictly more than threshold members reported one identical non-empty
\* signature.
AgreedSignature(signers) ==
  \E m \in DOMAIN signers :
    /\ signers[m] # ""
    /\ Cardinality({x \in DOMAIN signers : signers[x] = signers[m]}) > SignerThreshold

\* The first member, in the order members, that has a row.
FirstReporter(members, signers) ==
  members[CHOOSE i \in DOMAIN members :
            /\ members[i] \in DOMAIN signers
            /\ \A j \in DOMAIN members : members[j] \in DOMAIN signers => i <= j]

\* Strictly more than threshold members reported one identical non-empty
\* signature, and the first member that has a row is one of them.
AgreedWithFirst(members, signers) ==
  /\ DOMAIN signers # {}
  /\ \E m \in DOMAIN signers :
       /\ signers[m] # ""
       /\ Cardinality({x \in DOMAIN signers : signers[x] = signers[m]}) > SignerThreshold
       /\ signers[FirstReporter(members, signers)] = signers[m]

VerifiedSign == hist # <<>> /\ sessions["s1"].operation = OperationTypeSignInput

SignRowsBounded ==
  \A id \in SessionIds :
    IsSignSession(id) => Cardinality(PreparedBy(id)) <= SignerThreshold + 1

----------------------------------------------------------------------------
(* C35 *)

\* C35: whenever both processAction runs of one ProcessOutput call have
\* returned, their results are identical, also when startKeygen, startSign
\* or loopPendingSessions changed a session row between the two runs.
C35_RunsAgreeUnderInterleaving ==
  (replay.first # NoRun /\ replay.second # NoRun) => replay.first = replay.second

C35_Witness ==
  /\ replay.pc = "checked"
  /\ replay.interleaved
  /\ replay.first.txs # <<>>
  /\ replay.first = replay.second

----------------------------------------------------------------------------
(* signer node: acceptIncomingMessages, getSession and handlerLoop *)

notReceive == <<storeVars, session_signers, keys, cur, hist, obsVars, keeperVars,
               networkVars, keysVars, spendVars, wireVars, node_mutex, replayVars,
               pendingVars, snapshotVars>>

MinMessageLength == 16
MPCFirstMessageRound == 2
SessionIdLength == 16

\* make(chan *protocol.Message, len(node.members) * len(node.members)).
ChannelSize == Len(Members) * Len(Members)

NilMessage == [nil |-> TRUE]

\* What the network hands to ReceiveMessage: the bytes by their length,
\* their first byte (the length of the session id), the session id they
\* carry, and whether the rest unmarshals into a protocol.Message, with the
\* fields of that message acceptIncomingMessages looks at.
Bytes(length, first, id, body, ssid, from, to, round) ==
  [length |-> length, first |-> first, id |-> id, body |-> body,
   ssid |-> ssid, from |-> from, to |-> to, round |-> round]

IncomingMessages ==
  {Bytes(8, SessionIdLength, "q1", "message", TRUE, TRUE, TRUE, MPCFirstMessageRound),
   Bytes(SessionIdLength + 1, SessionIdLength, "q1", "message", TRUE, TRUE, TRUE,
         MPCFirstMessageRound),
   Bytes(40, SessionIdLength, "q1", "garbled", TRUE, TRUE, TRUE, MPCFirstMessageRound),
   Bytes(40, SessionIdLength, "q1", "message", FALSE, TRUE, TRUE, MPCFirstMessageRound),
   Bytes(40, SessionIdLength, "q1", "message", TRUE, FALSE, TRUE, MPCFirstMessageRound),
   Bytes(40, SessionIdLength, "q1", "message", TRUE, TRUE, FALSE, MPCFirstMessageRound)}
  \cup
  {Bytes(40, SessionIdLength, id, "message", TRUE, TRUE, TRUE, round) :
     id \in QueueSessionIds, round \in {MPCFirstMessageRound, MPCFirstMessageRound + 1}}

\* unmarshalSessionMessage: (sessionId, msg, err).  Too short bytes return
\* nil, nil and an error; otherwise the session id, a pointer to the message
\* and the error of UnmarshalBinary.
unmarshalSessionMessage(b) ==
  IF b.length < MinMessageLength
  THEN [sessionId |-> "", msg |-> NilMessage, err |-> TRUE]
  ELSE IF b.length - 1 <= b.first
  THEN [sessionId |-> "", msg |-> NilMessage, err |-> TRUE]
  ELSE [sessionId |-> b.id,
        msg |-> [nil |-> FALSE, ssid |-> b.ssid, from |-> b.from, to |-> b.to,
                 round |-> b.round],
        err |-> b.body # "message"]

\* The sessions in the order store.ListSessions returns them.
ReceiveSessionOrder == <<"q1", "q2">>

\* node.sessions[sid] before the first getSession of the session.
NoChannel == [made |-> FALSE, len |-> 0]

\* The locals of one iteration of acceptIncomingMessages, and what the
\* iteration handed to network.QueueMessage.
ReceiveIdleRow == [pc |-> "receive", last |-> NilMessage, id |-> "", round |-> 0,
                   queued |-> ""]

ReceiveLoopIdleRow == [pc |-> "idle", todo |-> <<>>, wait |-> <<>>]

\* A panic of acceptIncomingMessages or of loopInitialSessions ends the
\* process with all its goroutines.
ReceiveUp == recv.pc # "panic" /\ queue_pc.pc # "panic"

\* acceptIncomingMessages is back at ReceiveMessage.
NextMessage == ReceiveIdleRow

\* getSession, under node.mutex: the channel of the session is made at the
\* first call.
getSession(cs, id) == [cs EXCEPT ![id].made = TRUE]

\* queueOperation, under node.mutex: nil when node.operations holds the id,
\* otherwise the id is set and the goroutine of startOperation is started.
queueOperation(ops, st, id) ==
  IF id \in ops
  THEN [operations |-> ops, started |-> st, res |-> "nil"]
  ELSE [operations |-> ops \cup {id},
        started |-> [st EXCEPT ![id] = [calls |-> st[id].calls + 1, running |-> TRUE,
                                        err |-> FALSE]],
        res |-> "chan"]

\* acceptIncomingMessages from ReceiveMessage to the call of getSession: the
\* message is unmarshalled, msg.RoundNumber and msg.SSID are read for the
\* log line before err is looked at (a nil msg panics there), and the
\* message is dropped on an error, without SSID, from another peer than its
\* sender, or when it is not for this node.
ReceiveMessage ==
  /\ ReceiveUp
  /\ recv.pc = "receive"
  /\ \E b \in IncomingMessages :
       LET u == unmarshalSessionMessage(b)
       IN recv' = IF u.msg = NilMessage
                  THEN [ReceiveIdleRow EXCEPT !.pc = "panic", !.last = b]
                  ELSE IF u.err \/ ~u.msg.ssid \/ ~u.msg.from \/ ~u.msg.to
                  THEN [ReceiveIdleRow EXCEPT !.last = b]
                  ELSE [ReceiveIdleRow EXCEPT !.pc = "getSession", !.last = b,
                                              !.id = u.sessionId, !.round = u.msg.round]
  /\ UNCHANGED <<sessions, node_operations, chans, handlers, started, queue_pc, notReceive>>

\* acceptIncomingMessages: node.getSession(sessionId).
ReceiveGetSession ==
  /\ ReceiveUp
  /\ recv.pc = "getSession"
  /\ chans' = getSession(chans, recv.id)
  /\ recv' = [recv EXCEPT !.pc = "send"]
  /\ UNCHANGED <<sessions, node_operations, handlers, started, queue_pc, notReceive>>

\* acceptIncomingMessages: the send into the channel, which waits while the
\* channel is full; a message of a later round ends the iteration.
ChannelSend ==
  /\ ReceiveUp
  /\ recv.pc = "send"
  /\ chans[recv.id].len < ChannelSize
  /\ chans' = [chans EXCEPT ![recv.id].len = chans[recv.id].len + 1]
  /\ recv' = IF recv.round # MPCFirstMessageRound
             THEN NextMessage
             ELSE [recv EXCEPT !.pc = "read"]
  /\ UNCHANGED <<sessions, node_operations, handlers, started, queue_pc, notReceive>>

\* acceptIncomingMessages: store.ReadSession for a first round message; an
\* error is a panic, a session without a row ends the iteration.
ReceiveReadSession ==
  /\ ReceiveUp
  /\ recv.pc = "read"
  /\ \E err \in BOOLEAN :
       LET r == ReadSession(sessions, recv.id)
       IN recv' = IF err THEN [recv EXCEPT !.pc = "panic"]
                  ELSE IF r = NoRow THEN NextMessage
                  ELSE IF r.state = RequestStateInitial THEN [recv EXCEPT !.pc = "queue"]
                  ELSE [recv EXCEPT !.pc = "expire"]
  /\ UNCHANGED <<sessions, node_operations, chans, handlers, started, queue_pc, notReceive>>

\* acceptIncomingMessages: the session was read in state Initial and its
\* operation goes to queueOperation, whose result channel is dropped.
ReceiveQueueOperation ==
  /\ ReceiveUp
  /\ recv.pc = "queue"
  /\ LET q == queueOperation(node_operations, started, recv.id)
     IN /\ node_operations' = q.operations
        /\ started' = q.started
  /\ recv' = NextMessage
  /\ UNCHANGED <<sessions, chans, handlers, queue_pc, notReceive>>

\* acceptIncomingMessages: the session was read in another state, and a
\* message whose SSID is the session id is queued to the peer.
ReceiveQueueExpiry ==
  /\ ReceiveUp
  /\ recv.pc = "expire"
  /\ recv' = [NextMessage EXCEPT !.queued = recv.id]
  /\ UNCHANGED <<sessions, node_operations, chans, handlers, started, queue_pc, notReceive>>

\* loopInitialSessions: the sessions in state Initial are listed.
ReceiveLoopLists ==
  /\ ReceiveUp
  /\ queue_pc.pc = "idle"
  /\ queue_pc' = [ReceiveLoopIdleRow EXCEPT
                    !.pc = "range",
                    !.todo = SelectSeq(ReceiveSessionOrder,
                                LAMBDA id : sessions[id].state = RequestStateInitial)]
  /\ queue_pc'.todo # <<>>
  /\ UNCHANGED <<sessions, node_operations, recv, chans, handlers, started, notReceive>>

\* loopInitialSessions: the next session of the list goes to
\* queueOperation; after the last one the loop reads the result channels.
LoopQueuesOperation ==
  /\ ReceiveUp
  /\ queue_pc.pc = "range"
  /\ IF queue_pc.todo = <<>>
     THEN /\ queue_pc' = [queue_pc EXCEPT !.pc = "results"]
          /\ UNCHANGED <<node_operations, started>>
     ELSE LET id == Head(queue_pc.todo)
              q == queueOperation(node_operations, started, id)
          IN /\ node_operations' = q.operations
             /\ started' = q.started
             /\ queue_pc' = [queue_pc EXCEPT
                               !.todo = Tail(queue_pc.todo),
                               !.wait = IF q.res = "chan" THEN Append(queue_pc.wait, id)
                                        ELSE queue_pc.wait]
  /\ UNCHANGED <<sessions, recv, chans, handlers, notReceive>>

\* loopInitialSessions: the result channels are read in the order of the
\* range; an error is a panic, and after the last result the loop sleeps.
ReceiveLoopAwaits ==
  /\ ReceiveUp
  /\ queue_pc.pc = "results"
  /\ IF queue_pc.wait = <<>>
     THEN queue_pc' = ReceiveLoopIdleRow
     ELSE /\ ~started[Head(queue_pc.wait)].running
          /\ queue_pc' = IF started[Head(queue_pc.wait)].err
                         THEN [ReceiveLoopIdleRow EXCEPT !.pc = "panic"]
                         ELSE [queue_pc EXCEPT !.wait = Tail(queue_pc.wait)]
  /\ UNCHANGED <<sessions, node_operations, recv, chans, handlers, started, notReceive>>

\* Where the goroutine of a started operation is: before handlerLoop, in its
\* loop, or back in startKeygen or startSign with the result or the error
\* handlerLoop returned.
NoHandler == "none"

\* The goroutine of startOperation reaches handlerLoop, which takes the
\* channel of the session from getSession.
HandlerStarts(id) ==
  /\ ReceiveUp
  /\ started[id].running
  /\ handlers[id] = NoHandler
  /\ handlers' = [handlers EXCEPT ![id] = "loop"]
  /\ chans' = getSession(chans, id)
  /\ UNCHANGED <<sessions, node_operations, recv, started, queue_pc, notReceive>>

\* handlerLoop: case msg := <-incoming.
HandlerAccept(id) ==
  /\ ReceiveUp
  /\ handlers[id] = "loop"
  /\ chans[id].len > 0
  /\ chans' = [chans EXCEPT ![id].len = chans[id].len - 1]
  /\ UNCHANGED <<sessions, node_operations, recv, handlers, started, queue_pc, notReceive>>

\* What the store call at the end of startKeygen and startSign leaves.
WithOutcome(ss, id, outcome) ==
  [ss EXCEPT ![id].state = IF outcome = "Pending" THEN RequestStatePending
                           ELSE IF outcome = "Failed" THEN RequestStateFailed
                           ELSE ss[id].state]

\* handlerLoop returns h.Result() when the protocol closed its channel, or
\* the error of an expiry message or of the timeout; the operation is still
\* running and the session row is as it was.
HandlerReturns ==
  \E id \in QueueSessionIds, res \in {"result", "err"} :
    /\ ReceiveUp
    /\ handlers[id] = "loop"
    /\ handlers' = [handlers EXCEPT ![id] = res]
    /\ UNCHANGED <<sessions, node_operations, recv, chans, started, queue_pc, notReceive>>

\* startKeygen or startSign, after handlerLoop returned: an error goes to
\* FailSession; a result to MarkSessionPending or WriteKeyIfNotExists, or to
\* FailSession when sendKeygenBackup failed; the error of the store call is
\* returned into the result channel, and node.operations keeps the id.
OperationReturns ==
  \E id \in QueueSessionIds :
    /\ ReceiveUp
    /\ handlers[id] \in {"result", "err"}
    /\ \E outcome \in IF handlers[id] = "err" THEN {"Failed", "error"}
                       ELSE {"Pending", "Failed", "error"} :
         /\ started' = [started EXCEPT ![id] = [calls |-> started[id].calls,
                                                 running |-> FALSE,
                                                 err |-> outcome = "error"]]
         /\ sessions' = WithOutcome(sessions, id, outcome)
    /\ handlers' = [handlers EXCEPT ![id] = NoHandler]
    /\ UNCHANGED <<node_operations, recv, chans, queue_pc, notReceive>>

\* startSign returns before it reaches handlerLoop: nil for a node that is
\* not among the signers, an error of its tests, or FailSession for a key
\* the node does not hold.
OperationReturnsEarly ==
  \E id \in QueueSessionIds, outcome \in {"nil", "Failed", "error"} :
    /\ ReceiveUp
    /\ started[id].running
    /\ handlers[id] = NoHandler
    /\ started' = [started EXCEPT ![id] = [calls |-> started[id].calls, running |-> FALSE,
                                            err |-> outcome = "error"]]
    /\ sessions' = WithOutcome(sessions, id, outcome)
    /\ UNCHANGED <<node_operations, recv, chans, handlers, queue_pc, notReceive>>

\* The node holds session q1 in state Initial and has no row of session q2,
\* whose messages reach it all the same.
ReceiveInit ==
  /\ sessions = [id \in QueueSessionIds |->
                   IF id = "q1" THEN [state |-> RequestStateInitial] ELSE NoRow]
  /\ node_operations = {}
  /\ recv = ReceiveIdleRow
  /\ chans = [id \in QueueSessionIds |-> NoChannel]
  /\ handlers = [id \in QueueSessionIds |-> NoHandler]
  /\ node_mutex = ""
  /\ started = [id \in QueueSessionIds |-> NotStarted]
  /\ queue_pc = ReceiveLoopIdleRow
  /\ session_signers = [id \in SessionIds |-> [m \in MemberSet |-> Absent]]
  /\ keys = {StoredKey}
  /\ cur = NoOutput
  /\ hist = <<>>
  /\ StoreEmpty /\ ObserverIdle /\ KeeperIdle /\ NetworkIdle /\ KeysIdle
  /\ SpendIdle /\ WireIdle /\ ReplayIdle /\ PendingIdle /\ SnapshotIdle

ReceiveNext ==
  \/ ReceiveMessage
  \/ ReceiveGetSession
  \/ ChannelSend
  \/ ReceiveReadSession
  \/ ReceiveQueueOperation
  \/ ReceiveQueueExpiry
  \/ ReceiveLoopLists
  \/ LoopQueuesOperation
  \/ ReceiveLoopAwaits
  \/ \E id \in QueueSessionIds : HandlerStarts(id)
  \/ \E id \in QueueSessionIds : HandlerAccept(id)
  \/ HandlerReturns
  \/ OperationReturns
  \/ OperationReturnsEarly

SpecReceive == ReceiveInit /\ [][ReceiveNext]_vars

\* The goroutines of the node are scheduled: each step of
\* acceptIncomingMessages that can proceed does, a started operation
\* reaches its handlerLoop, and a running handlerLoop takes what its
\* channel holds.
SpecReceiveFair ==
  /\ SpecReceive
  /\ WF_vars(ReceiveMessage)
  /\ WF_vars(ReceiveGetSession)
  /\ WF_vars(ChannelSend)
  /\ WF_vars(ReceiveReadSession)
  /\ WF_vars(ReceiveQueueOperation)
  /\ WF_vars(ReceiveQueueExpiry)
  /\ \A id \in QueueSessionIds : WF_vars(HandlerAccept(id))

----------------------------------------------------------------------------
(* C36 *)

CannotBeUnmarshalled(b) == unmarshalSessionMessage(b).err

\* C36: a received message that cannot be unmarshalled leaves the receive
\* loop at ReceiveMessage for the next message, with no channel written;
\* the node never panics on such a message.
C36_UnmarshallableMessageDropped ==
  (recv.last # NilMessage /\ CannotBeUnmarshalled(recv.last)) => recv.pc = "receive"

----------------------------------------------------------------------------
(* C37 *)

\* C37: while the node runs, the receive loop never stays blocked on a
\* channel send: whatever session the message is for, the send completes
\* and the loop goes on to the messages of the other sessions.
C37_ReceiveLoopNeverBlocked ==
  (recv.pc = "send" /\ ReceiveUp) ~> (recv.pc # "send" \/ ~ReceiveUp)

----------------------------------------------------------------------------
(* signer node: loopPendingSessions and sendSignerResultTransaction *)

notPending == <<storeVars, session_signers, keys, cur, hist, obsVars, keeperVars,
               networkVars, keysVars, spendVars, wireVars, queueVars, replayVars,
               receiveVars, snapshotVars>>

PendingSessionIds == {"p1", "p2"}

\* sendSignerResultTransaction: the trace id is made of the session id and
\* the node id only.
ResultTraceId(id) == <<"SESSION", id, "SIGNER", NodeId, "RESULT">>

NothingSent == [traces |-> {}, again |-> FALSE]

PendingIdleRow == [pc |-> "sleep", todo |-> <<>>, failed |-> {}, synced |-> TRUE]

\* store.ListSessions(ctx, RequestStatePending, 64), oldest first.
ListPendingSessions(ss) ==
  LET ids == {id \in PendingSessionIds : ss[id].state = RequestStatePending}
  IN IF ids = {} THEN <<>>
     ELSE IF ids = PendingSessionIds THEN <<"p1", "p2">>
     ELSE <<CHOOSE id \in ids : TRUE>>

\* startKeygen or startSign ends and the session becomes Pending.
OperationBecomesPending ==
  \E id \in PendingSessionIds :
    /\ pending.pc # "panic"
    /\ sessions[id].state = RequestStateInitial
    /\ sessions' = [sessions EXCEPT ![id].state = RequestStatePending]
    /\ UNCHANGED <<pending, sent_results, notPending>>

\* loopPendingSessions: the sleep, the group is synced, and the list of the
\* Pending sessions.
PendingList ==
  /\ pending.pc = "sleep"
  /\ LET todo == ListPendingSessions(sessions)
     IN pending' = [pending EXCEPT !.todo = todo, !.synced = TRUE,
                                   !.pc = IF todo = <<>> THEN "sleep" ELSE "send"]
  /\ UNCHANGED <<sessions, sent_results, notPending>>

\* node.synced returns false or an error: the loop sleeps and starts over.
PendingNotSynced ==
  /\ pending.pc = "sleep"
  /\ pending' = [pending EXCEPT !.synced = FALSE]
  /\ UNCHANGED <<sessions, sent_results, notPending>>

\* store.ListSessions returns an error: the loop panics and the node ends.
PendingListFails ==
  /\ pending.pc = "sleep"
  /\ pending' = [pending EXCEPT !.pc = "panic", !.synced = TRUE]
  /\ UNCHANGED <<sessions, sent_results, notPending>>

\* A send that records nothing and still lets the loop go on to MarkSessionDone.
PendingSendFailsUnnoticed ==
  /\ pending.pc = "send"
  /\ pending' = [pending EXCEPT !.pc = "mark", !.failed = @ \cup {Head(pending.todo)}]
  /\ UNCHANGED <<sessions, sent_results, notPending>>

\* sendSignerResultTransaction returns nil: the transaction with the
\* session's trace id is sent.
PendingSendSucceeds ==
  /\ pending.pc = "send"
  /\ LET id == Head(pending.todo)
     IN sent_results' = [sent_results EXCEPT ![id] =
                           [traces |-> @.traces \cup {ResultTraceId(id)},
                            again |-> @.again \/ @.traces # {}]]
  /\ pending' = [pending EXCEPT !.pc = "mark"]
  /\ UNCHANGED <<sessions, notPending>>

\* sendSignerResultTransaction returns an error: break, and the next round
\* lists the session again.
PendingSendFails ==
  /\ pending.pc = "send"
  /\ pending' = [pending EXCEPT !.pc = "sleep", !.todo = <<>>,
                                !.failed = @ \cup {Head(pending.todo)}]
  /\ UNCHANGED <<sessions, sent_results, notPending>>

\* store.MarkSessionDone returns nil, and the loop goes on with the next
\* session of the list.
PendingMarkSucceeds ==
  /\ pending.pc = "mark"
  /\ sessions' = [sessions EXCEPT ![Head(pending.todo)].state = RequestStateDone]
  /\ pending' = [pending EXCEPT !.todo = Tail(@),
                                !.pc = IF Tail(pending.todo) = <<>> THEN "sleep" ELSE "send"]
  /\ UNCHANGED <<sent_results, notPending>>

\* store.MarkSessionDone returns an error: break.
PendingMarkFails ==
  /\ pending.pc = "mark"
  /\ pending' = [pending EXCEPT !.pc = "sleep", !.todo = <<>>,
                                !.failed = @ \cup {Head(pending.todo)}]
  /\ UNCHANGED <<sessions, sent_results, notPending>>

PendingInit ==
  /\ sessions = [id \in PendingSessionIds |-> [state |-> RequestStateInitial]]
  /\ pending = PendingIdleRow
  /\ sent_results = [id \in PendingSessionIds |-> NothingSent]
  /\ session_signers = [id \in SessionIds |-> [m \in MemberSet |-> Absent]]
  /\ keys = {StoredKey}
  /\ cur = NoOutput
  /\ hist = <<>>
  /\ StoreEmpty /\ ObserverIdle /\ KeeperIdle /\ NetworkIdle /\ KeysIdle
  /\ SpendIdle /\ WireIdle /\ QueueIdle /\ ReplayIdle /\ ReceiveIdle /\ SnapshotIdle

PendingNext ==
  \/ OperationBecomesPending
  \/ PendingList
  \/ PendingNotSynced
  \/ PendingListFails
  \/ PendingSendSucceeds
  \/ PendingSendFails
  \/ PendingMarkSucceeds
  \/ PendingMarkFails

SpecPending == PendingInit /\ [][PendingNext]_vars

\* The loop goroutine keeps running: its sleep ends, and every call it makes
\* returns, with either outcome.
SpecPendingFair ==
  /\ SpecPending
  /\ WF_vars(PendingList \/ PendingNotSynced \/ PendingListFails)
  /\ WF_vars(PendingSendSucceeds \/ PendingSendFails)
  /\ WF_vars(PendingMarkSucceeds \/ PendingMarkFails)

----------------------------------------------------------------------------
(* C39 *)

DoneOnlyAfterSent ==
  \A id \in PendingSessionIds :
    /\ sessions[id].state = RequestStateDone => sent_results[id].traces # {}
    /\ sent_results[id].traces \subseteq {ResultTraceId(id)}

FailureKeepsPending ==
  \A id \in PendingSessionIds :
    (sessions[id].state = RequestStatePending /\ sessions'[id].state # RequestStatePending) =>
       /\ sessions'[id].state = RequestStateDone
       /\ pending.pc = "mark"
       /\ Head(pending.todo) = id
       /\ ResultTraceId(id) \in sent_results[id].traces

PendingBecomesDone ==
  \A id \in PendingSessionIds :
    (sessions[id].state = RequestStatePending) ~> (sessions[id].state = RequestStateDone)

\* Sends that are tried again and again succeed in the end.
SendsSucceed == SF_vars(PendingSendSucceeds)

\* The group is synced and ListSessions lists, and MarkSessionDone marks,
\* in the end when tried again and again, and ListSessions never fails.
ListsAndMarksSucceed ==
  /\ SF_vars(PendingList)
  /\ SF_vars(PendingMarkSucceeds)
  /\ [](pending.pc # "panic")

----------------------------------------------------------------------------
(* observer: snapshotsLoop and the snapshots-checkpoint property *)

notSnapshots == <<storeVars, signerVars, obsVars, keeperVars, networkVars, keysVars,
                 spendVars, wireVars, queueVars, replayVars, receiveVars, pendingVars>>

MaxSnapshots == 4
BatchLimit == 2
ConfTimestamp == 0

\* The property as the store holds it: nothing, or a time in RFC3339Nano.
NoProperty == [empty |-> TRUE]
FormatRFC3339Nano(t) == [rfc3339nano |-> t]
ParseRFC3339Nano(val) == val.rfc3339nano

\* readSnapshotsCheckpoint.
readSnapshotsCheckpoint(val) ==
  IF val = NoProperty THEN ConfTimestamp ELSE ParseRFC3339Nano(val)

\* GET /snapshots with order ASC, the offset and the limit: the oldest
\* snapshots created at or after the offset.
RECURSIVE TakeFrom(_, _, _)
TakeFrom(snapshots, offset, limit) ==
  IF snapshots = <<>> \/ limit = 0 THEN <<>>
  ELSE IF Head(snapshots).created < offset THEN TakeFrom(Tail(snapshots), offset, limit)
  ELSE <<Head(snapshots)>> \o TakeFrom(Tail(snapshots), offset, limit - 1)

SnapshotIds(batch) == {batch[i].id : i \in DOMAIN batch}

SnapIdleRow == [pc |-> "fetch", offset |-> 0, batch |-> <<>>, fetched |-> {},
                restarted |-> FALSE]

SnapRestartRow == [SnapIdleRow EXCEPT !.restarted = TRUE]

\* A transfer reaches the observer's account: a snapshot no older than the
\* ones before it.
LedgerAppend ==
  /\ Len(ledger) < MaxSnapshots
  /\ \E later \in 0..1 :
       ledger' = Append(ledger, [id |-> Len(ledger) + 1,
                                 created |-> (IF ledger = <<>> THEN 1
                                              ELSE ledger[Len(ledger)].created) + later])
  /\ UNCHANGED <<snap, checkpoint, handled, notSnapshots>>

\* snapshotsLoop: the checkpoint is read and the batch fetched; a failed
\* request sleeps and starts the iteration again.
SnapshotsFetch ==
  /\ snap.pc = "fetch"
  /\ \E ok \in BOOLEAN :
       LET offset == readSnapshotsCheckpoint(checkpoint)
           batch == TakeFrom(ledger, offset, BatchLimit)
       IN snap' = IF ~ok THEN snap
                  ELSE [snap EXCEPT !.pc = IF batch = <<>> THEN "write" ELSE "handle",
                                    !.offset = offset, !.batch = batch,
                                    !.fetched = SnapshotIds(batch)]
  /\ UNCHANGED <<checkpoint, handled, ledger, notSnapshots>>

\* The loop going on past a snapshot whose handling failed.
SnapshotsHandleSkippingErrors ==
  /\ snap.pc = "handle"
  /\ \E ok \in BOOLEAN :
       LET s == Head(snap.batch)
       IN /\ handled' = IF ok THEN handled \cup {s.id} ELSE handled
          /\ snap' = [snap EXCEPT !.offset = s.created, !.batch = Tail(@),
                                  !.pc = IF Tail(snap.batch) = <<>> THEN "write" ELSE "handle"]
  /\ UNCHANGED <<checkpoint, ledger, notSnapshots>>

\* snapshotsLoop: handleSnapshot on the next snapshot of the batch; an
\* error panics, and the restarted process begins with the stored checkpoint.
SnapshotsHandle ==
  /\ snap.pc = "handle"
  /\ \E ok \in BOOLEAN :
       LET s == Head(snap.batch)
       IN IF ok
          THEN /\ handled' = handled \cup {s.id}
               /\ snap' = [snap EXCEPT !.offset = s.created, !.batch = Tail(@),
                                       !.pc = IF Tail(snap.batch) = <<>> THEN "write"
                                              ELSE "handle"]
          ELSE /\ snap' = SnapRestartRow
               /\ UNCHANGED handled
  /\ UNCHANGED <<checkpoint, ledger, notSnapshots>>

\* snapshotsLoop: writeSnapshotsCheckpoint(offset) after the batch; an
\* error panics.
SnapshotsWrite ==
  /\ snap.pc = "write"
  /\ \E ok \in BOOLEAN :
       IF ok
       THEN /\ checkpoint' = FormatRFC3339Nano(snap.offset)
            /\ snap' = [SnapIdleRow EXCEPT !.restarted = snap.restarted]
       ELSE /\ snap' = SnapRestartRow
            /\ UNCHANGED checkpoint
  /\ UNCHANGED <<handled, ledger, notSnapshots>>

\* The process is killed and started again.
SnapshotsCrash ==
  /\ snap.pc # "fetch"
  /\ snap' = SnapRestartRow
  /\ UNCHANGED <<checkpoint, handled, ledger, notSnapshots>>

SnapshotsInit ==
  /\ snap = SnapIdleRow
  /\ checkpoint = NoProperty
  /\ handled = {}
  /\ ledger = <<>>
  /\ StoreEmpty /\ SignerEmpty /\ ObserverIdle /\ KeeperIdle /\ NetworkIdle /\ KeysIdle
  /\ SpendIdle /\ WireIdle /\ QueueIdle /\ ReplayIdle /\ ReceiveIdle /\ PendingIdle

SnapshotsNext ==
  \/ LedgerAppend
  \/ SnapshotsFetch
  \/ SnapshotsHandle
  \/ SnapshotsWrite
  \/ SnapshotsCrash

SpecSnapshots == SnapshotsInit /\ [][SnapshotsNext]_vars

----------------------------------------------------------------------------
(* C40 *)

CheckpointTime == readSnapshotsCheckpoint(checkpoint)

\* Every snapshot older than the checkpoint has been handled.
NoSnapshotSkipped ==
  \A i \in DOMAIN ledger :
    (ledger[i].created >= ConfTimestamp /\ ledger[i].created < CheckpointTime) =>
       ledger[i].id \in handled

CheckpointMovesForward ==
  readSnapshotsCheckpoint(checkpoint') >= readSnapshotsCheckpoint(checkpoint)

CheckpointAfterBatch ==
  checkpoint' # checkpoint =>
    /\ snap.pc = "write"
    /\ snap.batch = <<>>
    /\ snap.fetched \subseteq handled
    /\ checkpoint' = FormatRFC3339Nano(snap.offset)

\* C40: the checkpoint never moves backwards, it is written only when every
\* snapshot of the fetched batch has been handled, and at any time, crashes
\* included, every snapshot older than the checkpoint has been handled.
C40_CheckpointNeverSkips ==
  /\ []NoSnapshotSkipped
  /\ [][CheckpointMovesForward /\ CheckpointAfterBatch]_vars

C40_Witness ==
  /\ snap.restarted
  /\ Len(ledger) >= 3
  /\ CheckpointTime > ledger[2].created
  /\ {ledger[1].id, ledger[2].id} \subseteq handled

----------------------------------------------------------------------------
(* C32 *)

\* The outputs the table marks as spent by the approved transaction t.
SpentByTransaction(outs, t) == {o \in outs : o.spent_by = ApprovalHash(t)}

AtMostOneFeeInput ==
  \A t \in SpendApprovals : Cardinality(SpentByTransaction(bitcoin_outputs, t)) <= 1

\* A call that returns a fee input for a transaction that already has one
\* returns that one.
SameFeeInputOnRetry ==
  \A c \in SpendCallers, t \in SpendApprovals :
    (/\ spend[c].pc = "range"
     /\ spend'[c].tx = t
     /\ spend'[c].pc \in {"splitter", "spend"}
     /\ SpentByTransaction(bitcoin_outputs, t) # {}) =>
       \E o \in SpentByTransaction(bitcoin_outputs, t) : spend'[c].feeInput = FeeInputOf(o)

\* C32: a repeated bitcoinRetrieveFeeInputsForTransaction for a transaction
\* returns the fee input the transaction already has, and no two outputs
\* are ever marked as spent by the same transaction.
C32_OneFeeInputPerTransaction ==
  /\ []AtMostOneFeeInput
  /\ [][SameFeeInputOnRetry]_vars

----------------------------------------------------------------------------
(* observer: one bitcoinTransactionSpendLoop over the list of fully signed
   transactions of its chain *)

\* The approvals of the chain, oldest first, as the loop of caller c2 lists
\* them.
LoopCaller == "c2"

LoopApprovalSet == {CallerOrder[LoopCaller][i] : i \in DOMAIN CallerOrder[LoopCaller]}

\* The accountant holds the deposit d, which pays the fee of t2 at every fee
\* rate, and any of the smaller deposits.
LoopPools == {DepositsNamed({"d"} \cup names) : names \in SUBSET {"b", "c"}}

SpendLoopInit ==
  /\ bitcoin_outputs \in LoopPools
  /\ approvals = [t \in LoopApprovalSet |->
                    [state |-> RequestStatePending, spent_hash |-> NullHash]]
  /\ spend = [c \in SpendCallers |-> SpendIdleRow]
  /\ chain_txs = {}
  /\ lastBroadcast = NoBroadcast
  /\ StoreEmpty /\ SignerEmpty /\ ObserverIdle /\ KeeperIdle /\ NetworkIdle /\ KeysIdle
  /\ WireIdle /\ QueueIdle /\ LateIdle

SpendLoopNext ==
  \/ FinishSignatures
  \/ SpendList(LoopCaller)
  \/ SpendAssign(LoopCaller)
  \/ SpendBuildSplitter(LoopCaller)
  \/ SpendWriteFeeOutput(LoopCaller)
  \/ SpendBroadcastSplitter(LoopCaller)
  \/ SpendGetSplitter(LoopCaller)
  \/ SpendBroadcastSpend(LoopCaller)
  \/ SpendGetSpend(LoopCaller)
  \/ SpendProcessTransaction(LoopCaller)
  \/ SpendConfirm(LoopCaller)
  \/ SpendAfterConfirm(LoopCaller)

SpecSpendLoop == SpendLoopInit /\ [][SpendLoopNext]_vars

\* A step of the loop for transaction t that does not end the range with an
\* error.
SpendGoesOn(t) ==
  /\ spend'[LoopCaller].pc \notin {"idle", "panic"}
  /\ spend'[LoopCaller].tx = t

\* The loop goroutine keeps running, and a step for a transaction whose
\* success is possible again and again succeeds in the end: the node
\* answers, the store writes.
SpecSpendLoopFair ==
  /\ SpecSpendLoop
  /\ WF_vars(SpendList(LoopCaller))
  /\ WF_vars(SpendAssign(LoopCaller))
  /\ WF_vars(SpendBuildSplitter(LoopCaller))
  /\ WF_vars(SpendWriteFeeOutput(LoopCaller))
  /\ WF_vars(SpendBroadcastSplitter(LoopCaller))
  /\ WF_vars(SpendGetSplitter(LoopCaller))
  /\ WF_vars(SpendBroadcastSpend(LoopCaller))
  /\ WF_vars(SpendGetSpend(LoopCaller))
  /\ WF_vars(SpendProcessTransaction(LoopCaller))
  /\ WF_vars(SpendConfirm(LoopCaller))
  /\ WF_vars(SpendAfterConfirm(LoopCaller))
  /\ \A t \in LoopApprovalSet :
       /\ SF_vars(SpendAssign(LoopCaller) /\ SpendGoesOn(t))
       /\ SF_vars(SpendBuildSplitter(LoopCaller) /\ SpendGoesOn(t))
       /\ SF_vars(SpendWriteFeeOutput(LoopCaller) /\ SpendGoesOn(t))
       /\ SF_vars(SpendBroadcastSplitter(LoopCaller) /\ SpendGoesOn(t))
       /\ SF_vars(SpendGetSplitter(LoopCaller) /\ SpendGoesOn(t))
       /\ SF_vars(SpendBroadcastSpend(LoopCaller) /\ SpendGoesOn(t))
       /\ SF_vars(SpendGetSpend(LoopCaller) /\ SpendGoesOn(t))
       /\ SF_vars(SpendProcessTransaction(LoopCaller) /\ SpendGoesOn(t))

----------------------------------------------------------------------------
(* C33 *)

\* C33: every fully signed transaction whose own spending can succeed is
\* confirmed in the end, also while the spending of another transaction of
\* the chain keeps failing.
C33_OthersStillConfirmed ==
  (approvals["t2"].state = RequestStateDone) ~> (approvals["t2"].spent_hash # NullHash)

====
